---- MODULE Spec2Model ----
(***************************************************************************)
(* State-machine model of the plasma-cell viewer.                          *)
(*                                                                         *)
(* Units.  Lengths, scales, opacities and angles are fixed-point numbers   *)
(* in thousandths (1.8 is 1800, opacity 0.6 is 600, an angle of 1 rad is   *)
(* 1000).  Time is counted in ticks of 1/TicksPerUnit of the clock's unit, *)
(* so that every threshold of the secretion cycle falls on a tick.         *)
(* Math.random() is a linear congruential stream over RandDen values; a    *)
(* draw r stands for the number r / RandDen in [0,1).                      *)
(***************************************************************************)
EXTENDS Integers, Sequences, FiniteSets, TLC

\* ------------------------------------------------------------------ bounds
\* Seeds of the random stream that Init may start from.
MaxSeed == 2
\* Last clock value (in ticks) at which the animation specification still
\* runs a frame callback: a little more than two secretion cycles.
MaxClock == 250
\* Last clock value at which the application specification runs a frame.
MaxAppClock == 130
\* Number of page loads (each one a fresh run of every generator) that the
\* generator specification follows.
MaxLoads == 60
\* Number of base-opacity steps (of 0.1) the fade rule is tried on.
MaxOpacitySteps == 10

\* ------------------------------------------------------- program constants
NULL == "null"

VARIABLES
  activeFeature,   \* App: useState<string | null>(null)
  showIntro,       \* UIOverlay: useState(true)
  showInfo,        \* UIOverlay: useState(false)
  hovered,         \* useInteraction: one useState(false) per organelle component
  cursor,          \* document.body.style.cursor
  cameraDistance,  \* controls.object.position.length(), in thousandths
  lastEvent,       \* the event whose handler ran last (history variable)
  randomSeed,      \* state of the Math.random() stream when the page loaded
  loads,           \* number of page loads so far (one session per load)
  clock,           \* THREE.Clock elapsed time, in ticks
  painted,         \* TRUE once the render loop has run a frame
  vesDummy,        \* Vesicles: the shared dummy Object3D
  abDummy,         \* AntibodyStream: the shared dummy Object3D
  vesDummy0,       \* vesDummy as the last frame found it
  abDummy0,        \* abDummy as the last frame found it
  cellRotation     \* PlasmaCell: cellGroup rotation <<y, z>>

\* The data generated at load and mount time (SECRETION_PATHS, the particle
\* pools, the mitochondria placements) is fixed by the random stream of the
\* session, and the instance matrices of the two animated components are
\* fixed by the last frame: they are state functions, defined below from
\* randomSeed, clock and the dummies.

uiVars == <<activeFeature, showIntro, showInfo, hovered, cursor, cameraDistance>>
genVars == <<randomSeed, loads>>
animVars == <<clock, painted, vesDummy, abDummy, vesDummy0, abDummy0, cellRotation>>
vars == <<uiVars, lastEvent, genVars, animVars>>

\* ------------------------------------------------------------ number model
TicksPerUnit == 20
RandDen == 200
LcgModulus == 65536
LcgMultiplier == 25173
LcgIncrement == 13849

\* Division truncating towards zero, as the rounding of a fixed-point product.
Div(a, b) == IF a >= 0 THEN a \div b ELSE -((-a) \div b)

\* Math.random(): the stream advances by one step per call.
LcgNext(s) == (s * LcgMultiplier + LcgIncrement) % LcgModulus
\* The draw that state s stands for, as r in 0..RandDen-1 (the number r/RandDen).
RandomOf(s) == (s * RandDen) \div LcgModulus
\* Math.random() * k, with k in any unit.
RandomTimes(s, k) == (RandomOf(s) * k) \div RandDen

\* Heron's iteration from a start x >= sqrt(n): the largest r with r * r <= n.
RECURSIVE SqrtIter(_, _)
SqrtIter(x, n) ==
  LET y == (x + n \div x) \div 2
  IN IF y >= x THEN x ELSE SqrtIter(y, n)
\* Math.sqrt on a square of thousandths, truncated to a thousandth.
MathSqrt(n) ==
  IF n = 0 THEN 0
  ELSE SqrtIter(IF n < 100 THEN 10
                ELSE IF n < 10000 THEN 100
                ELSE IF n < 1000000 THEN 1000
                ELSE IF n < 100000000 THEN 10000
                ELSE 46340, n)
\* Math.sqrt(n) > c and Math.sqrt(n) < c, decided exactly on the squares.
MathSqrtGt(n, c) == n > c * c
MathSqrtLt(n, c) == n < c * c

PiMilli == 3142
TwoPiMilli == 6283
\* Math.sin on [0, pi] (Bhaskara's rational approximation, error below 0.002).
SinHalf(x) == LET p == (x * (PiMilli - x)) \div 100
              IN (16000 * p) \div (493608 - 4 * p)
\* Math.sin and Math.cos of an angle in thousandths of a radian.
MathSin(a) == LET x == a % TwoPiMilli
              IN IF x <= PiMilli THEN SinHalf(x) ELSE -SinHalf(x - PiMilli)
MathCos(a) == MathSin(a + 1571)

\* ------------------------------------------------------------ THREE.Vector3
Vector3(x, y, z) == <<x, y, z>>
subVectors(a, b) == <<a[1] - b[1], a[2] - b[2], a[3] - b[3]>>
addVectors(a, b) == <<a[1] + b[1], a[2] + b[2], a[3] + b[3]>>
lengthSq(v) == v[1] * v[1] + v[2] * v[2] + v[3] * v[3]
\* multiplyScalar by k thousandths.
multiplyScalar(v, k) == <<Div(v[1] * k, 1000), Div(v[2] * k, 1000), Div(v[3] * k, 1000)>>
\* normalize(): divideScalar(length() || 1); a zero vector stays zero.
normalize(v) ==
  LET len == MathSqrt(lengthSq(v))
  IN IF len = 0 THEN v
     ELSE <<Div(v[1] * 1000, len), Div(v[2] * 1000, len), Div(v[3] * 1000, len)>>
\* crossVectors of two vectors of thousandths.
crossVectors(a, b) ==
  <<Div(a[2] * b[3] - a[3] * b[2], 1000),
    Div(a[3] * b[1] - a[1] * b[3], 1000),
    Div(a[1] * b[2] - a[2] * b[1], 1000)>>
\* lerpVectors(a, b, num/den)
lerpVectors(a, b, num, den) ==
  <<a[1] + Div((b[1] - a[1]) * num, den),
    a[2] + Div((b[2] - a[2]) * num, den),
    a[3] + Div((b[3] - a[3]) * num, den)>>

\* ------------------------------------------------------------- constants.ts
NUCLEUS_RADIUS == 2400
NUCLEUS_OFFSET == <<5500, 0, 0>>
GOLGI_POS == <<1800, 0, 0>>

\* ----------------------------------------------------------- generated data
NumPaths == 8

\* A variant of the entry whose end point is spread over two units of x.
SecretionPathWide(i, s) ==
  LET s1 == LcgNext(s)
      s2 == LcgNext(s1)
      s3 == LcgNext(s2)
      theta == (TwoPiMilli * i) \div 8 + RandomTimes(s1, 500)
      radius == 2000 + RandomTimes(s2, 1500)
      y == Div(MathCos(theta) * radius, 1000)
      z == Div(MathSin(theta) * radius, 1000)
  IN [start |-> Vector3(1800, 0, 0),
      end |-> Vector3(-8500 + RandomTimes(s3, 2000), y, z)]
\* One entry of SECRETION_PATHS, drawn from rng state s; the entry's three
\* draws are the three steps after s.
SecretionPath(i, s) ==
  LET s1 == LcgNext(s)
      s2 == LcgNext(s1)
      s3 == LcgNext(s2)
      theta == (TwoPiMilli * i) \div 8 + RandomTimes(s1, 500)
      radius == 2000 + RandomTimes(s2, 1500)
      y == Div(MathCos(theta) * radius, 1000)
      z == Div(MathSin(theta) * radius, 1000)
  IN [start |-> Vector3(1800, 0, 0),
      end |-> Vector3(-8500 + RandomTimes(s3, 1000), y, z)]

RECURSIVE StepRng(_, _)
StepRng(s, n) ==
  IF n = 0 THEN s
  ELSE LET x == LcgNext(s)
       IN IF x >= 0 THEN StepRng(x, n - 1) ELSE x

\* Array.from({ length: 8 }).map(...): the entries i..7 appended to acc,
\* drawing on from s.
RECURSIVE PathsLoop(_, _, _)
PathsLoop(i, s, acc) ==
  IF i >= NumPaths THEN acc
  ELSE LET next == Append(acc, SecretionPath(i, s))
       IN IF Len(next) > i THEN PathsLoop(i + 1, StepRng(s, 3), next) ELSE next
\* A variant whose eight tracks rise straight up from the Golgi.
GenSecretionPathsUpright(s) ==
  [i \in 1..NumPaths |->
     [start |-> Vector3(1800, 0, 0), end |-> Vector3(1800, 2000 + 100 * i, 0)]]
GenSecretionPaths(s) == PathsLoop(0, s, <<>>)

\* Microtubules: one cylinder per entry of SECRETION_PATHS, placed at the
\* midpoint of the path and as long as the path (squared length here).
MicrotubuleTracks(paths) ==
  [k \in 1..Len(paths) |->
     [midPoint |-> multiplyScalar(addVectors(paths[k].start, paths[k].end), 500),
      lengthSq |-> lengthSq(subVectors(paths[k].end, paths[k].start))]]

\* new Array(count).fill(0).map((_, i) => ({ pathIndex, offset })), offset in
\* ticks: the particles i..count-1 appended to acc, drawing on from s.
RECURSIVE ParticlesLoop(_, _, _, _, _)
ParticlesLoop(i, count, numPaths, s, acc) ==
  IF i >= count THEN acc
  ELSE LET s1 == LcgNext(s)
           next == Append(acc, [pathIndex |-> i % numPaths,
                                offset |-> RandomTimes(s1, 10 * TicksPerUnit)])
       IN IF Len(next) > i THEN ParticlesLoop(i + 1, count, numPaths, s1, next) ELSE next
\* A variant that puts every particle on the first path.
GenParticlesOnFirstPath(count, numPaths, s) == ParticlesLoop(0, count, 1, s, <<>>)
GenParticles(count, numPaths, s) == ParticlesLoop(0, count, numPaths, s, <<>>)

\* const count = SECRETION_PATHS.length * 2 (Vesicles), * 8 (AntibodyStream)
VesicleCount(paths) == Len(paths) * 2
\* A variant with the antibody pool of an earlier revision, 4 per path.
AntibodyCountFour(paths) == Len(paths) * 4
AntibodyCount(paths) == Len(paths) * 8

\* Squared distance of a point to the nucleus centre.
DistToNucSq(pos) == lengthSq(subVectors(pos, NUCLEUS_OFFSET))

\* Mitochondria.instances of the detailed variant: the loop body for the
\* instances i..count-1, threading the random stream.
MitoDetailedCount == 25
RECURSIVE MitoDetailedLoop(_, _, _)
MitoDetailedLoop(i, s, temp) ==
  IF i >= MitoDetailedCount THEN [instances |-> temp, rng |-> s]
  ELSE
    LET s1 == LcgNext(s)
        s2 == LcgNext(s1)
        s3 == LcgNext(s2)
        x == (RandomTimes(s1, 1000) - 700) * 12
        y == (RandomTimes(s2, 1000) - 500) * 5
        z == (RandomTimes(s3, 1000) - 500) * 5
        r1 == LcgNext(s3)
        r2 == LcgNext(r1)
        r3 == LcgNext(r2)
        r4 == LcgNext(r3)
    IN IF MathSqrtLt(y * y + z * z, 5000)
          /\ MathSqrtGt(DistToNucSq(<<x, y, z>>), NUCLEUS_RADIUS + 500)
       THEN MitoDetailedLoop(i + 1, r4,
              Append(temp, [position |-> <<x, y, z>>,
                            rotation |-> <<RandomTimes(r1, PiMilli), RandomTimes(r2, PiMilli),
                                           RandomTimes(r3, 500)>>,
                            scale |-> 700 + RandomTimes(r4, 500)]))
       ELSE MitoDetailedLoop(i + 1, s3, temp)
GenMitoDetailed(s) == MitoDetailedLoop(0, s, <<>>)

\* Mitochondria.instances of the simplified variant.
MitoSimpleCount == 35
RECURSIVE MitoSimpleLoop(_, _, _)
MitoSimpleLoop(i, s, temp) ==
  IF i >= MitoSimpleCount THEN [instances |-> temp, rng |-> s]
  ELSE
    LET s1 == LcgNext(s)
        s2 == LcgNext(s1)
        s3 == LcgNext(s2)
        x == (RandomTimes(s1, 1000) - 700) * 12
        y == (RandomTimes(s2, 1000) - 500) * 6
        z == (RandomTimes(s3, 1000) - 500) * 6
        r1 == LcgNext(s3)
        r2 == LcgNext(r1)
        r3 == LcgNext(r2)
    IN IF MathSqrtLt(y * y + z * z, 6000)
       THEN MitoSimpleLoop(i + 1, r3,
              Append(temp, [position |-> <<x, y, z>>,
                            rotation |-> <<RandomTimes(r1, PiMilli), RandomTimes(r2, PiMilli), 0>>,
                            scale |-> 800 + RandomTimes(r3, 400)]))
       ELSE MitoSimpleLoop(i + 1, s3, temp)
GenMitoSimple(s) == MitoSimpleLoop(0, s, <<>>)

\* ------------------------------------------------------- per-frame animator
\* cycleDuration = 6.0, in ticks; transitionPoint = 0.75, in thousandths.
cycleDuration == 6 * TicksPerUnit
transitionPoint == 750

\* new THREE.Object3D(): position 0, rotation 0, scale 1.
Object3D == [position |-> <<0, 0, 0>>, rotation |-> <<0, 0, 0>>, scale |-> 1000]
\* updateMatrix(): compose(position, quaternion, scale).  The rotation block
\* of the matrix is the rotation times the scale, so with scale 0 the
\* rotation leaves no trace in the matrix, while the translation column is
\* the position whatever the scale.
updateMatrix(obj) ==
  [position |-> obj.position,
   rotation |-> IF obj.scale = 0 THEN <<0, 0, 0>> ELSE obj.rotation,
   scale |-> obj.scale]

\* An angle of (t * k) radians for t in ticks and k in thousandths.
AngleOf(t, k) == (t * k) \div TicksPerUnit

\* A variant of rawProgress on a cycle one clock unit longer.
rawProgressLong(t, offset) == (t + offset) % (cycleDuration + TicksPerUnit)
\* rawProgress = ((t + offset) % cycleDuration) / cycleDuration, as the
\* numerator over cycleDuration.
rawProgress(t, offset) == (t + offset) % cycleDuration
\* A variant of the phase test that never leaves the vesicle phase.
BeforeTransitionWhole(raw) == raw * 1000 < 1000 * cycleDuration
\* rawProgress < transitionPoint
BeforeTransition(raw) == raw * 1000 < transitionPoint * cycleDuration

\* Vesicles: stageProgress = rawProgress / transitionPoint, as num / den.
VesicleStageNum(raw) == raw * 1000
VesicleStageDen == transitionPoint * cycleDuration
\* A variant whose ramps span the first and the last fifth of the stage.
VesicleScaleSlow(num, den) ==
  LET s0 == 250
      s1 == IF num * 5 < den THEN Div(num * 1250, den) ELSE s0
  IN IF num * 5 > 4 * den THEN Div((den - num) * 1250, den) ELSE s1
\* let s = 0.25; if (stageProgress < 0.1) ...; if (stageProgress > 0.9) ...
VesicleScale(num, den) ==
  LET s0 == 250
      s1 == IF num * 10 < den THEN Div(num * 2500, den) ELSE s0
  IN IF num * 10 > 9 * den THEN Div((den - num) * 2500, den) ELSE s1

\* dir = subVectors(path.end, path.start).normalize()
PathDirection(path) == normalize(subVectors(path.end, path.start))

\* A variant of the local "up" that keeps the zero-length perp.
LocalUpNoFallback(path) ==
  LET dir == PathDirection(path)
      worldUp == Vector3(0, 1000, 0)
      perp == normalize(crossVectors(dir, worldUp))
  IN normalize(crossVectors(perp, dir))
\* The local "up" of the tube a path runs along: perp = dir x worldUp,
\* replaced by (1, 0, 0) when it has zero length; localUp = perp x dir.
LocalUp(path) ==
  LET dir == PathDirection(path)
      worldUp == Vector3(0, 1000, 0)
      perp0 == normalize(crossVectors(dir, worldUp))
      perp == IF lengthSq(perp0) = 0 THEN Vector3(1000, 0, 0) ELSE perp0
  IN normalize(crossVectors(perp, dir))

\* Position of an active vesicle: on the track, lifted by (s + 0.03) along
\* localUp.
VesiclePosition(path, localUp, num, den, s) ==
  addVectors(lerpVectors(path.start, path.end, num, den),
             multiplyScalar(localUp, s + 30))

\* A variant of the vesicle step that leaves the dummy's scale alone outside
\* the vesicle phase.
VesicleStepNoHide(p, t, path, localUp, dummy) ==
  LET raw == rawProgress(t, p.offset)
      num == VesicleStageNum(raw)
      den == VesicleStageDen
  IN IF BeforeTransition(raw)
     THEN LET s == VesicleScale(num, den)
              d1 == [position |-> VesiclePosition(path, localUp, num, den, s),
                     rotation |-> <<0, 0, 0>>, scale |-> s]
              d2 == [d1 EXCEPT !.scale = Div(s * 500, 1000),
                               !.rotation = <<AngleOf(t, 2000), AngleOf(t, 1000), 0>>]
          IN [dummy |-> d2, mesh |-> updateMatrix(d1), cargo |-> updateMatrix(d2)]
     ELSE [dummy |-> dummy, mesh |-> updateMatrix(dummy), cargo |-> updateMatrix(dummy)]
\* The body of particles.forEach in Vesicles.useFrame for one particle: the
\* dummy after it and the two matrices it writes.  localUp is LocalUp(path);
\* the loop computes it anew for every particle, from the path alone.
VesicleStep(p, t, path, localUp, dummy) ==
  LET raw == rawProgress(t, p.offset)
      num == VesicleStageNum(raw)
      den == VesicleStageDen
  IN IF BeforeTransition(raw)
     THEN LET s == VesicleScale(num, den)
              d1 == [position |-> VesiclePosition(path, localUp, num, den, s),
                     rotation |-> <<0, 0, 0>>, scale |-> s]
              d2 == [d1 EXCEPT !.scale = Div(s * 500, 1000),
                               !.rotation = <<AngleOf(t, 2000), AngleOf(t, 1000), 0>>]
          IN [dummy |-> d2, mesh |-> updateMatrix(d1), cargo |-> updateMatrix(d2)]
     ELSE LET d1 == [dummy EXCEPT !.scale = 0]
          IN [dummy |-> d1, mesh |-> updateMatrix(d1), cargo |-> updateMatrix(d1)]

RECURSIVE VesiclesLoop(_, _, _, _, _, _, _)
VesiclesLoop(k, particles, t, paths, ups, dummy, out) ==
  IF k > Len(particles) THEN [dummy |-> dummy, mesh |-> out.mesh, cargo |-> out.cargo]
  ELSE LET j == particles[k].pathIndex + 1
           r == VesicleStep(particles[k], t, paths[j], ups[j], dummy)
           o == [mesh |-> [out.mesh EXCEPT ![k] = r.mesh],
                 cargo |-> [out.cargo EXCEPT ![k] = r.cargo]]
       IN IF r.dummy = r.dummy /\ Len(o.mesh) >= 0 /\ Len(o.cargo) >= 0
          THEN VesiclesLoop(k + 1, particles, t, paths, ups, r.dummy, o)
          ELSE r

\* A variant of the callback that stops after the first half of the pool.
VesiclesUseFrameHalf(t, particles, paths, dummy, mesh, cargo) ==
  LET ups == [j \in 1..Len(paths) |-> LocalUp(paths[j])]
  IN VesiclesLoop(1, SubSeq(particles, 1, Len(particles) \div 2), t, paths, ups, dummy,
                  [mesh |-> mesh, cargo |-> cargo])
\* Vesicles.useFrame at elapsed time t, from dummy and the present matrices.
VesiclesUseFrame(t, particles, paths, dummy, mesh, cargo) ==
  LET ups == [j \in 1..Len(paths) |-> LocalUp(paths[j])]
  IN VesiclesLoop(1, particles, t, paths, ups, dummy, [mesh |-> mesh, cargo |-> cargo])

\* AntibodyStream: stageProgress = (rawProgress - 0.75) / (1.0 - 0.75).
AntibodyStageNum(raw) == raw * 1000 - transitionPoint * cycleDuration
AntibodyStageDen == (1000 - transitionPoint) * cycleDuration
\* A variant that fades over the last tenth only, as the vesicles do.
AntibodyScaleLate(num, den) ==
  LET s0 == 250
      s1 == IF num * 10 < den THEN Div(num * 2500, den) ELSE s0
  IN IF num * 10 > 9 * den THEN Div((den - num) * 2500, den) ELSE s1
\* let s = 0.25; if (stageProgress < 0.1) ...; if (stageProgress > 0.8) ...
AntibodyScale(num, den) ==
  LET s0 == 250
      s1 == IF num * 10 < den THEN Div(num * 2500, den) ELSE s0
  IN IF num * 10 > 8 * den THEN Div((den - num) * 1250, den) ELSE s1

\* The lateral drift <<0, dy, dz>> of particle index i at time t.
AntibodyDrift(t, i, num, den) ==
  LET a == AngleOf(t, 5000) + 1000 * i
  IN <<0, Div(Div(MathSin(a) * 200, 1000) * num, den),
          Div(Div(MathCos(a) * 200, 1000) * num, den)>>

\* A variant of the outward track that sets out from the path's start.
AntibodyTrackFromStart(path, direction, num, den) ==
  LET travelDist == Div(num * 6000, den)
  IN addVectors(path.start, multiplyScalar(direction, travelDist))
\* Position on the outward track, before the drift is added.
AntibodyTrack(path, direction, num, den) ==
  LET travelDist == Div(num * 6000, den)
  IN addVectors(path.end, multiplyScalar(direction, travelDist))

AntibodyPosition(path, direction, t, i, num, den) ==
  addVectors(AntibodyTrack(path, direction, num, den), AntibodyDrift(t, i, num, den))

\* A variant of the antibody step that moves the dummy on from where it is.
AntibodyStepAccumulate(p, i, t, path, direction, dummy) ==
  LET raw == rawProgress(t, p.offset)
      num == AntibodyStageNum(raw)
      den == AntibodyStageDen
  IN IF ~BeforeTransition(raw)
     THEN LET d1 == [position |-> addVectors(dummy.position,
                                             AntibodyPosition(path, direction, t, i, num, den)),
                     rotation |-> <<AngleOf(t, 2000), AngleOf(t, 1500), 1000 * i>>,
                     scale |-> AntibodyScale(num, den)]
          IN [dummy |-> d1, mesh |-> updateMatrix(d1)]
     ELSE LET d1 == [dummy EXCEPT !.scale = 0]
          IN [dummy |-> d1, mesh |-> updateMatrix(d1)]
\* The body of particles.forEach in AntibodyStream.useFrame for index i;
\* direction is PathDirection(path).
AntibodyStep(p, i, t, path, direction, dummy) ==
  LET raw == rawProgress(t, p.offset)
      num == AntibodyStageNum(raw)
      den == AntibodyStageDen
  IN IF ~BeforeTransition(raw)
     THEN LET d1 == [position |-> AntibodyPosition(path, direction, t, i, num, den),
                     rotation |-> <<AngleOf(t, 2000), AngleOf(t, 1500), 1000 * i>>,
                     scale |-> AntibodyScale(num, den)]
          IN [dummy |-> d1, mesh |-> updateMatrix(d1)]
     ELSE LET d1 == [dummy EXCEPT !.scale = 0]
          IN [dummy |-> d1, mesh |-> updateMatrix(d1)]

RECURSIVE AntibodyLoop(_, _, _, _, _, _, _)
AntibodyLoop(k, particles, t, paths, dirs, dummy, mesh) ==
  IF k > Len(particles) THEN [dummy |-> dummy, mesh |-> mesh]
  ELSE LET j == particles[k].pathIndex + 1
           r == AntibodyStep(particles[k], k - 1, t, paths[j], dirs[j], dummy)
           m == [mesh EXCEPT ![k] = r.mesh]
       IN IF r.dummy = r.dummy /\ Len(m) >= 0
          THEN AntibodyLoop(k + 1, particles, t, paths, dirs, r.dummy, m)
          ELSE r

\* AntibodyStream.useFrame at elapsed time t.
AntibodyUseFrame(t, particles, paths, dummy, mesh) ==
  LET dirs == [j \in 1..Len(paths) |-> PathDirection(paths[j])]
  IN AntibodyLoop(1, particles, t, paths, dirs, dummy, mesh)

\* PlasmaCell.useFrame: the idle rotation <<y, z>> of the whole cell.
PlasmaCellUseFrame(t) ==
  <<Div(MathSin(AngleOf(t, 100)) * 100, 1000), Div(MathCos(AngleOf(t, 50)) * 50, 1000)>>

\* ------------------------------------------------- selection and rendering
\* The organelle components PlasmaCell composes, in order.
Components ==
  <<"Nucleus", "RER", "Golgi", "Mitochondria", "Lysosomes", "Centrioles",
    "FreeRibosomes", "Microtubules", "Vesicles", "AntibodyStream">>
ComponentSet == {Components[k] : k \in 1..Len(Components)}

\* A variant in which the ribosome component reports the mitochondria's name.
InteractionNameShared(c) ==
  CASE c = "FreeRibosomes" -> "Mitochondria"
    [] c = "AntibodyStream" -> "Antibodies"
    [] OTHER -> c
\* The name each component passes to useInteraction and useFadeLogic.
InteractionName(c) ==
  CASE c = "FreeRibosomes" -> "Ribosomes"
    [] c = "AntibodyStream" -> "Antibodies"
    [] OTHER -> c
OrganelleNames == {InteractionName(c) : c \in ComponentSet}

\* The (baseOpacity, baseTransparent) arguments each component passes.
BaseOpacity(c) ==
  CASE c = "FreeRibosomes" -> 600
    [] c = "Microtubules" -> 500
    [] c = "Vesicles" -> 800
    [] OTHER -> 1000
BaseTransparent(c) == c \in {"FreeRibosomes", "Microtubules", "Vesicles", "AntibodyStream"}

\* A variant of the fade rule that dims without forcing transparency.
useFadeLogicOpaque(name, feature, baseOpacity, baseTransparent) ==
  IF feature = NULL \/ feature = name
  THEN [opacity |-> baseOpacity, transparent |-> baseTransparent]
  ELSE [opacity |-> Div(baseOpacity * 100, 1000), transparent |-> baseTransparent]
\* useFadeLogic(name, activeFeature, baseOpacity = 1.0, baseTransparent = false)
useFadeLogic(name, feature, baseOpacity, baseTransparent) ==
  LET isSelected == feature = name
      hasSelection == feature # NULL
  IN IF ~hasSelection THEN [opacity |-> baseOpacity, transparent |-> baseTransparent]
     ELSE IF isSelected THEN [opacity |-> baseOpacity, transparent |-> baseTransparent]
     ELSE [opacity |-> Div(baseOpacity * 100, 1000), transparent |-> TRUE]

\* What a component renders from its props and its hover flag.
OrganelleRender(c) ==
  [fade |-> useFadeLogic(InteractionName(c), activeFeature, BaseOpacity(c), BaseTransparent(c)),
   isSelected |-> activeFeature = InteractionName(c),
   highlight |-> hovered[c] /\ activeFeature = NULL]

\* The colour props of a component's materials that the hover flag enters:
\* highlight is (hovered && !activeFeature).  Emissive "none" is a material
\* without an emissive prop.
MaterialColors(c, highlight) ==
  CASE c = "Nucleus" ->
         [color |-> IF highlight THEN "#3d255e" ELSE "COLORS.NUCLEUS", emissive |-> "none"]
    [] c = "RER" ->
         [color |-> "COLORS.RER", emissive |-> IF highlight THEN "#003333" ELSE "#001515"]
    [] c = "Golgi" ->
         [color |-> "COLORS.GOLGI", emissive |-> IF highlight THEN "#403000" ELSE "#201500"]
    [] c = "Mitochondria" ->
         [color |-> "COLORS.MITOCHONDRIA", emissive |-> IF highlight THEN "#401010" ELSE "#150505"]
    [] c = "Lysosomes" ->
         [color |-> "COLORS.LYSOSOME", emissive |-> IF highlight THEN "#104010" ELSE "#000000"]
    [] c = "Centrioles" ->
         [color |-> "COLORS.CENTRIOLE", emissive |-> IF highlight THEN "#602040" ELSE "#200010"]
    [] c = "FreeRibosomes" ->
         [color |-> IF highlight THEN "#ffffff" ELSE "COLORS.FREE_RIBOSOME", emissive |-> "none"]
    [] c = "Microtubules" ->
         [color |-> "COLORS.MICROTUBULE",
          emissive |-> IF highlight THEN "COLORS.MICROTUBULE" ELSE "#000000"]
    [] c = "Vesicles" ->
         [color |-> "COLORS.GOLGI", emissive |-> IF highlight THEN "COLORS.GOLGI" ELSE "COLORS.GOLGI"]
    [] OTHER ->
         [color |-> "COLORS.ANTIBODY", emissive |-> "COLORS.ANTIBODY"]

\* The material props a component renders with selection feature and hover
\* flag hover.
OrganelleMaterial(c, feature, hover) ==
  LET fade == useFadeLogic(InteractionName(c), feature, BaseOpacity(c), BaseTransparent(c))
      colors == MaterialColors(c, hover /\ feature = NULL)
  IN [color |-> colors.color, emissive |-> colors.emissive,
      opacity |-> fade.opacity, transparent |-> fade.transparent]

\* The text of each component's <OrganelleLabel>.
LabelText(c) ==
  CASE c = "Nucleus" -> "Nucleus (The Boss)"
    [] c = "RER" -> "Rough ER (Factory Floor)"
    [] c = "Golgi" -> "Golgi (Packaging)"
    [] c = "Mitochondria" -> "Mitochondria (Power)"
    [] c = "Lysosomes" -> "Lysosomes (Recycling)"
    [] c = "Centrioles" -> "Centrioles"
    [] c = "FreeRibosomes" -> "Free Ribosomes"
    [] c = "Microtubules" -> "Microtubules (Highways)"
    [] c = "Vesicles" -> "Secretory Vesicles (Trucks)"
    [] OTHER -> "Antibody Swarm"

\* A variant that labels every component while anything is selected.
RenderedLabelOnAnySelection(c, feature) ==
  IF feature # NULL THEN LabelText(c) ELSE NULL
\* {isSelected && <OrganelleLabel text=... />}: the label component c
\* renders with selection feature, NULL for none.
RenderedLabel(c, feature) ==
  LET isSelected == feature = InteractionName(c)
  IN IF isSelected THEN LabelText(c) ELSE NULL

\* A variant in which only a selected nucleus clears the membrane.
membraneOpacityOnNucleus == IF activeFeature = "Nucleus" THEN 20 ELSE 150
\* PlasmaCell: membraneOpacity
membraneOpacity == IF activeFeature # NULL THEN 20 ELSE 150

\* ------------------------------------------------------------------- state
Event(kind, target) == [kind |-> kind, target |-> target]

\* Where in the random stream of a session each generator starts: the
\* paths at the seed, then the vesicle pool, the antibody pool and the
\* mitochondria.  (The draws of the generators the model does not follow
\* only move these places.)
VesicleRng(s) == StepRng(s, 3 * NumPaths)
AntibodyRng(s) == StepRng(VesicleRng(s), VesicleCount(GenSecretionPaths(s)))
MitoRng(s) == StepRng(AntibodyRng(s), AntibodyCount(GenSecretionPaths(s)))

\* The generated data of the session.
SECRETION_PATHS == GenSecretionPaths(randomSeed)
vesParticles ==
  GenParticles(VesicleCount(SECRETION_PATHS), Len(SECRETION_PATHS), VesicleRng(randomSeed))
abParticles ==
  GenParticles(AntibodyCount(SECRETION_PATHS), Len(SECRETION_PATHS), AntibodyRng(randomSeed))
mitoDetailed == GenMitoDetailed(MitoRng(randomSeed)).instances
mitoSimple == GenMitoSimple(MitoRng(randomSeed)).instances

\* ------------------------------------------------------------ memoisation
\* A useMemo cell before the first render.
EmptyCell == [set |-> FALSE]
\* A variant of useMemo that runs the factory on every render.
useMemoAlways(cell, deps, s, fresh) ==
  [cell |-> [set |-> TRUE, deps |-> deps, value |-> fresh.value], rng |-> fresh.rng]
\* useMemo(factory, deps) on the cell of the hook, with the random stream
\* at s: the cached value when the cell is set and the deps are the ones
\* it was computed for, otherwise fresh, the value the factory makes from
\* s and the stream it leaves.
useMemo(cell, deps, s, fresh) ==
  IF cell.set /\ cell.deps = deps THEN [cell |-> cell, rng |-> s]
  ELSE [cell |-> [set |-> TRUE, deps |-> deps, value |-> fresh.value], rng |-> fresh.rng]

\* Mitochondrion.cristae: four folds along a body of the given length.
GenCristae(length, s) ==
  LET s1 == LcgNext(s)
      s2 == LcgNext(s1)
      s3 == LcgNext(s2)
      s4 == LcgNext(s3)
      fold(i, r) == [yPos |-> Div((2 * i - 3) * length, 10),
                     rotZ |-> Div((RandomTimes(r, 1000) - 500) * 400, 1000)]
  IN [value |-> <<fold(0, s1), fold(1, s2), fold(2, s3), fold(3, s4)>>, rng |-> s4]

\* instances.map(data => <Mitochondrion scale={data.scale} />): the cristae
\* hook of each Mitochondrion from the k-th on, with deps [length].
RECURSIVE CristaeLoop(_, _, _, _, _)
CristaeLoop(k, instances, cells, s, acc) ==
  IF k > Len(instances) THEN [cells |-> acc, rng |-> s]
  ELSE LET length == Div(800 * instances[k].scale, 1000)
           r == useMemo(IF k <= Len(cells) THEN cells[k] ELSE EmptyCell,
                        <<length>>, s, GenCristae(length, s))
           next == Append(acc, r.cell)
       IN IF Len(next) >= k THEN CristaeLoop(k + 1, instances, cells, r.rng, next) ELSE r

\* The hook cells of the scene before its first render.
NoHooks ==
  [vesicles |-> EmptyCell, antibodies |-> EmptyCell, mitochondria |-> EmptyCell,
   cristae |-> <<>>]

\* One render of the scene with props (feature, hover), from the hook cells
\* hooks and the random stream at s: the cells and the stream it leaves,
\* and the material props it hands to the renderer.
RenderScene(hooks, s, paths, feature, hover) ==
  LET v == useMemo(hooks.vesicles, <<>>, s,
                   [value |-> GenParticles(VesicleCount(paths), Len(paths), s),
                    rng |-> StepRng(s, VesicleCount(paths))])
      a == useMemo(hooks.antibodies, <<>>, v.rng,
                   [value |-> GenParticles(AntibodyCount(paths), Len(paths), v.rng),
                    rng |-> StepRng(v.rng, AntibodyCount(paths))])
      m == useMemo(hooks.mitochondria, <<>>, a.rng,
                   [value |-> GenMitoDetailed(a.rng).instances,
                    rng |-> GenMitoDetailed(a.rng).rng])
      c == CristaeLoop(1, m.cell.value, hooks.cristae, m.rng, <<>>)
  IN [hooks |-> [vesicles |-> v.cell, antibodies |-> a.cell, mitochondria |-> m.cell,
                 cristae |-> c.cells],
      rng |-> c.rng,
      materials |-> [x \in ComponentSet |-> OrganelleMaterial(x, feature, hover[x])]]

\* <instancedMesh args={[.., .., count]}>: count identity matrices.
InstancedMesh(count) == [k \in 1..count |-> updateMatrix(Object3D)]

\* The instance matrices: as constructed until the first frame, and as the
\* last frame wrote them afterwards.
VesiclesFrameResult ==
  VesiclesUseFrame(clock, vesParticles, SECRETION_PATHS, vesDummy0,
                   InstancedMesh(VesicleCount(SECRETION_PATHS)),
                   InstancedMesh(VesicleCount(SECRETION_PATHS)))
vesMatrix ==
  IF painted THEN VesiclesFrameResult.mesh ELSE InstancedMesh(VesicleCount(SECRETION_PATHS))
cargoMatrix ==
  IF painted THEN VesiclesFrameResult.cargo ELSE InstancedMesh(VesicleCount(SECRETION_PATHS))
abMatrix ==
  IF painted
  THEN AntibodyUseFrame(clock, abParticles, SECRETION_PATHS, abDummy0,
                        InstancedMesh(AntibodyCount(SECRETION_PATHS))).mesh
  ELSE InstancedMesh(AntibodyCount(SECRETION_PATHS))

InitialCameraDistance == 35903

Init ==
  /\ activeFeature = NULL
  /\ showIntro = TRUE
  /\ showInfo = FALSE
  /\ hovered = [c \in ComponentSet |-> FALSE]
  /\ cursor = ""
  /\ cameraDistance = InitialCameraDistance
  /\ lastEvent = Event("load", NULL)
  /\ randomSeed \in 1..MaxSeed
  /\ loads = 1
  /\ clock = 0
  /\ painted = FALSE
  /\ vesDummy = Object3D
  /\ abDummy = Object3D
  /\ vesDummy0 = Object3D
  /\ abDummy0 = Object3D
  /\ cellRotation = <<0, 0>>

\* A new page load: every piece of session state is discarded and every
\* generator runs again, drawing on from where the random stream stands.
Reload ==
  /\ loads < MaxLoads
  /\ loads' = loads + 1
  /\ randomSeed' = GenMitoDetailed(MitoRng(randomSeed)).rng
  /\ activeFeature' = NULL
  /\ showIntro' = TRUE
  /\ showInfo' = FALSE
  /\ hovered' = [c \in ComponentSet |-> FALSE]
  /\ cursor' = ""
  /\ cameraDistance' = InitialCameraDistance
  /\ lastEvent' = Event("load", NULL)
  /\ clock' = 0
  /\ painted' = FALSE
  /\ vesDummy' = Object3D
  /\ abDummy' = Object3D
  /\ vesDummy0' = Object3D
  /\ abDummy0' = Object3D
  /\ cellRotation' = <<0, 0>>

\* A variant in which the splash lets pointer events through.
InteractiveUnderSplash == ~showInfo
\* The splash and the info modal cover the whole canvas (absolute/fixed
\* inset-0, z-50), so the scene and the controls receive pointer events only
\* while neither is shown.
Interactive == ~showIntro /\ ~showInfo

\* A variant of onClick that selects the component's own identifier.
onClickComponent(c) ==
  /\ Interactive
  /\ activeFeature' = c
  /\ lastEvent' = Event("click", InteractionName(c))
  /\ UNCHANGED <<showIntro, showInfo, hovered, cursor, cameraDistance, genVars, animVars>>
\* useInteraction.handlers.onClick of component c, the nearest mesh hit:
\* stopPropagation, then onSelect(name) -> handleOrganelleSelect -> setActiveFeature.
onClick(c) ==
  /\ Interactive
  /\ activeFeature' = InteractionName(c)
  /\ lastEvent' = Event("click", InteractionName(c))
  /\ UNCHANGED <<showIntro, showInfo, hovered, cursor, cameraDistance, genVars, animVars>>

\* The outer membrane mesh, <mesh raycast={() => null}>, and what a ray
\* through the objects of ray, nearest first, intersects: the raycaster gets
\* no intersection from the membrane.
Membrane == "Membrane"
intersect(ray) == SelectSeq(ray, LAMBDA o : o # Membrane)

\* The pointer event handed to the handlers of the meshes under the pointer.
PointerEvent == [stopped |-> FALSE]
\* A variant of stopPropagation that lets the event travel on.
stopPropagationIgnored(e) == e
\* e.stopPropagation(): no handler of an object further from the camera, and
\* no ancestor's handler, runs after the present one.
stopPropagation(e) == [e EXCEPT !.stopped = TRUE]

\* A variant of the click handler that clears the selection when the
\* selected organelle is clicked again.
runOnClickToggle(c, d) ==
  [event |-> stopPropagation(d.event),
   selection |-> IF d.selection = InteractionName(c) THEN NULL ELSE InteractionName(c),
   handled |-> Append(d.handled, c),
   missed |-> d.missed]
\* handlers.onClick of component c, run on the dispatch d = (event, the
\* selection so far, the components whose handler has run).
runOnClick(c, d) ==
  [event |-> stopPropagation(d.event),
   selection |-> InteractionName(c),
   handled |-> Append(d.handled, c),
   missed |-> d.missed]

\* The handlers of the components hit by the ray, nearest first, from the
\* k-th on: each one runs unless a handler before it stopped the event.
RECURSIVE handleIntersects(_, _, _)
handleIntersects(hits, k, d) ==
  IF k > Len(hits) \/ d.event.stopped THEN d
  ELSE LET next == runOnClick(hits[k], d)
       IN IF Len(next.handled) >= k THEN handleIntersects(hits, k + 1, next) ELSE next

\* A click on the canvas whose ray meets the components of hits, nearest
\* first, when the selection is feature: with nothing hit the canvas's
\* onPointerMissed runs, otherwise the handlers of the hits.
ClickDispatch(hits, feature) ==
  LET d0 == [event |-> PointerEvent, selection |-> feature, handled |-> <<>>, missed |-> FALSE]
  IN IF Len(hits) = 0
     THEN [d0 EXCEPT !.selection = NULL, !.missed = TRUE]
     ELSE handleIntersects(hits, 1, d0)

\* The rays that pass through two organelles, the nearer one first; and the
\* ones the specifications follow: through two components that stand next
\* to each other in the composition, in either order.
RayPairs == {<<c, d>> : c, d \in ComponentSet} \ {<<c, c>> : c \in ComponentSet}
RayHits ==
  {<<Components[k], Components[k + 1]>> : k \in 1..(Len(Components) - 1)}
    \cup {<<Components[k + 1], Components[k]>> : k \in 1..(Len(Components) - 1)}

\* A click whose ray passes through the meshes of two components.
onCanvasClick(hits) ==
  /\ Interactive
  /\ activeFeature' = ClickDispatch(hits, activeFeature).selection
  /\ lastEvent' = Event("click", InteractionName(hits[1]))
  /\ UNCHANGED <<showIntro, showInfo, hovered, cursor, cameraDistance, genVars, animVars>>

\* Canvas onPointerMissed: a click that hits no mesh with handlers.
onPointerMissed ==
  /\ Interactive
  /\ activeFeature' = NULL
  /\ lastEvent' = Event("miss", NULL)
  /\ UNCHANGED <<showIntro, showInfo, hovered, cursor, cameraDistance, genVars, animVars>>

\* App.handleClose, the "Reset View" button.
handleClose ==
  /\ Interactive
  /\ activeFeature' = NULL
  /\ lastEvent' = Event("reset", NULL)
  /\ UNCHANGED <<showIntro, showInfo, hovered, cursor, cameraDistance, genVars, animVars>>

\* A variant of onPointerOver that raises the flag of every component.
onPointerOverAll(c) ==
  /\ Interactive
  /\ \A d \in ComponentSet : ~hovered[d]
  /\ hovered' = [d \in ComponentSet |-> TRUE]
  /\ cursor' = "pointer"
  /\ lastEvent' = Event("over", NULL)
  /\ UNCHANGED <<activeFeature, showIntro, showInfo, cameraDistance, genVars, animVars>>
\* useInteraction.handlers.onPointerOver of component c.  The pointer is over
\* one organelle at a time: the others have received onPointerOut.
onPointerOver(c) ==
  /\ Interactive
  /\ \A d \in ComponentSet : ~hovered[d]
  /\ hovered' = [hovered EXCEPT ![c] = TRUE]
  /\ cursor' = "pointer"
  /\ lastEvent' = Event("over", NULL)
  /\ UNCHANGED <<activeFeature, showIntro, showInfo, cameraDistance, genVars, animVars>>

\* useInteraction.handlers.onPointerOut of component c.
onPointerOut(c) ==
  /\ hovered[c]
  /\ hovered' = [hovered EXCEPT ![c] = FALSE]
  /\ cursor' = "auto"
  /\ lastEvent' = Event("out", NULL)
  /\ UNCHANGED <<activeFeature, showIntro, showInfo, cameraDistance, genVars, animVars>>

\* OrbitControls minDistance / maxDistance.
minDistance == 12000
maxDistance == 50000
Max(a, b) == IF a >= b THEN a ELSE b
\* A variant of Math.min that yields its second argument.
MinSecond(a, b) == b
Min(a, b) == IF a <= b THEN a ELSE b

\* A variant of handleZoom that also clears the selection.
handleZoomReset(direction) ==
  /\ Interactive
  /\ LET zoomFactor == IF direction = "in" THEN 800 ELSE 1250
         newDistance == (cameraDistance * zoomFactor + 500) \div 1000
         clampedDistance == Max(minDistance, Min(maxDistance, newDistance))
     IN cameraDistance' = clampedDistance
  /\ activeFeature' = NULL
  /\ lastEvent' = Event(IF direction = "in" THEN "zoomIn" ELSE "zoomOut", NULL)
  /\ UNCHANGED <<showIntro, showInfo, hovered, cursor, genVars, animVars>>
\* App.handleZoom(direction): zoomFactor 0.8 or 1.25, rounded to a thousandth.
handleZoom(direction) ==
  /\ Interactive
  /\ LET zoomFactor == IF direction = "in" THEN 800 ELSE 1250
         newDistance == (cameraDistance * zoomFactor + 500) \div 1000
         clampedDistance == Max(minDistance, Min(maxDistance, newDistance))
     IN cameraDistance' = clampedDistance
  /\ lastEvent' = Event(IF direction = "in" THEN "zoomIn" ELSE "zoomOut", NULL)
  /\ UNCHANGED <<activeFeature, showIntro, showInfo, hovered, cursor, genVars, animVars>>

\* UIOverlay: the "Cell Guide" button, setShowInfo(true).
OpenInfo ==
  /\ Interactive
  /\ showInfo' = TRUE
  /\ lastEvent' = Event("openInfo", NULL)
  /\ UNCHANGED <<activeFeature, showIntro, hovered, cursor, cameraDistance, genVars, animVars>>

\* UIOverlay: the modal's close button, setShowInfo(false).
CloseInfo ==
  /\ ~showIntro
  /\ showInfo
  /\ showInfo' = FALSE
  /\ lastEvent' = Event("closeInfo", NULL)
  /\ UNCHANGED <<activeFeature, showIntro, hovered, cursor, cameraDistance, genVars, animVars>>

\* UIOverlay: "Start Exploration", setShowIntro(false).
DismissIntro ==
  /\ showIntro
  /\ showIntro' = FALSE
  /\ lastEvent' = Event("dismissIntro", NULL)
  /\ UNCHANGED <<activeFeature, showInfo, hovered, cursor, cameraDistance, genVars, animVars>>

\* A variant of the render loop whose particle callbacks stand still while
\* an organelle is selected.
FramePausedOnSelection(dt) ==
  /\ clock' = clock + dt
  /\ painted' = TRUE
  /\ vesDummy0' = vesDummy
  /\ vesDummy' = IF activeFeature # NULL THEN vesDummy
                 ELSE VesiclesUseFrame(clock + dt, vesParticles, SECRETION_PATHS, vesDummy,
                                       InstancedMesh(VesicleCount(SECRETION_PATHS)),
                                       InstancedMesh(VesicleCount(SECRETION_PATHS))).dummy
  /\ abDummy0' = abDummy
  /\ abDummy' = IF activeFeature # NULL THEN abDummy
                ELSE AntibodyUseFrame(clock + dt, abParticles, SECRETION_PATHS, abDummy,
                                      InstancedMesh(AntibodyCount(SECRETION_PATHS))).dummy
  /\ cellRotation' = PlasmaCellUseFrame(clock + dt)
  /\ lastEvent' = Event("frame", NULL)
  /\ UNCHANGED <<uiVars, genVars>>
\* One pass of the render loop, dt ticks after the previous one: every
\* useFrame callback runs once, in one task, reading the same elapsed time.
Frame(dt) ==
  /\ clock' = clock + dt
  /\ painted' = TRUE
  /\ vesDummy0' = vesDummy
  /\ vesDummy' = VesiclesUseFrame(clock + dt, vesParticles, SECRETION_PATHS, vesDummy,
                                  InstancedMesh(VesicleCount(SECRETION_PATHS)),
                                  InstancedMesh(VesicleCount(SECRETION_PATHS))).dummy
  /\ abDummy0' = abDummy
  /\ abDummy' = AntibodyUseFrame(clock + dt, abParticles, SECRETION_PATHS, abDummy,
                                 InstancedMesh(AntibodyCount(SECRETION_PATHS))).dummy
  /\ cellRotation' = PlasmaCellUseFrame(clock + dt)
  /\ lastEvent' = Event("frame", NULL)
  /\ UNCHANGED <<uiVars, genVars>>

\* Frame intervals, in ticks.
\* The interval between two frames at the display's refresh, in ticks.
RefreshDelta == 7
FrameDeltas == {RefreshDelta, cycleDuration}
AppFrameDeltas == {cycleDuration}

AnimFrame == \E dt \in FrameDeltas : clock + dt <= MaxClock /\ Frame(dt)

\* The application specification follows the render loop from the states in
\* which the camera stands where it was created and the pointer has not yet
\* entered an organelle; no useFrame callback reads the camera distance, the
\* hover flags or the cursor.
FrameFollowed == cameraDistance = InitialCameraDistance /\ cursor = ""
AppFrame ==
  \E dt \in AppFrameDeltas : clock + dt <= MaxAppClock /\ FrameFollowed /\ Frame(dt)

\* The application: user events and the render loop.
Next ==
  \/ \E c \in ComponentSet : onClick(c)
  \/ \E hits \in RayHits : onCanvasClick(hits)
  \/ onPointerMissed
  \/ handleClose
  \/ \E c \in ComponentSet : onPointerOver(c)
  \/ \E c \in ComponentSet : onPointerOut(c)
  \/ \E direction \in {"in", "out"} : handleZoom(direction)
  \/ OpenInfo
  \/ CloseInfo
  \/ DismissIntro
  \/ AppFrame
Spec == Init /\ [][Next]_vars

\* The pointer on the scene: the splash dismissed, then clicks and hovers.
NextSelection ==
  \/ DismissIntro
  \/ \E c \in ComponentSet : onClick(c)
  \/ \E hits \in RayHits : onCanvasClick(hits)
  \/ onPointerMissed
  \/ handleClose
  \/ \E c \in ComponentSet : onPointerOver(c)
  \/ \E c \in ComponentSet : onPointerOut(c)
SpecSelection == Init /\ [][NextSelection]_vars

\* The animation alone: the render loop at varying frame intervals.
NextAnim == AnimFrame
SpecAnim == Init /\ [][NextAnim]_vars

\* The generators: page loads, each followed by whole cycles of frames.
GenFrame == \E dt \in AppFrameDeltas : clock + dt <= MaxAppClock /\ Frame(dt)
NextGen == Reload \/ GenFrame
SpecGen == Init /\ [][NextGen]_vars

\* ============================================================== properties
\* ------------------------------------------------------------ the fade rule
\* The base opacities the fade rule is tried on.
OpacityGrid == {100 * k : k \in 0..MaxOpacitySteps}

\* C1: for every organelle name O, the selection S of the state and every
\* base pair (B, T), useFadeLogic(O, S, B, T) is (B, T) when nothing is
\* selected or O itself is selected, and (B x 0.1, transparent) otherwise.
C1_FadeRule ==
  \A O \in OrganelleNames, B \in OpacityGrid, T \in BOOLEAN :
    LET fade == useFadeLogic(O, activeFeature, B, T)
    IN /\ activeFeature = NULL => fade.opacity = B /\ fade.transparent = T
       /\ activeFeature = O => fade.opacity = B /\ fade.transparent = T
       /\ activeFeature # NULL /\ activeFeature # O =>
            fade.opacity * 10 = B /\ fade.transparent = TRUE
\* Golgi is selected, so the rule ghosts every other organelle: the opaque
\* nucleus is rendered at opacity 0.1 and transparent.
C1_Witness ==
  /\ activeFeature = "Golgi"
  /\ useFadeLogic("Nucleus", activeFeature, 1000, FALSE) = [opacity |-> 100, transparent |-> TRUE]
  /\ useFadeLogic("Golgi", activeFeature, 1000, FALSE) = [opacity |-> 1000, transparent |-> FALSE]

\* ------------------------------------------------------------ the selection
\* C2: after a click on a mesh of an organelle the selection is that
\* organelle's name, and after a click that misses every mesh or the Reset
\* View action the selection is none, whatever it was before.
C2_SelectionHandlers ==
  /\ lastEvent.kind = "click" => activeFeature = lastEvent.target /\ activeFeature \in OrganelleNames
  /\ lastEvent.kind \in {"miss", "reset"} => activeFeature = NULL
\* The ribosome meshes have just been clicked and "Ribosomes" is selected.
C2_Witness ==
  /\ lastEvent = Event("click", "Ribosomes")
  /\ activeFeature = "Ribosomes"

\* The components that are selected; a component rendered at its base pair,
\* and a component rendered ghosted.
SelectedComponents == {c \in ComponentSet : OrganelleRender(c).isSelected}
AtBase(c) ==
  OrganelleRender(c).fade = [opacity |-> BaseOpacity(c), transparent |-> BaseTransparent(c)]
Ghosted(c) ==
  /\ OrganelleRender(c).fade.opacity * 10 = BaseOpacity(c)
  /\ OrganelleRender(c).fade.opacity # BaseOpacity(c)
  /\ OrganelleRender(c).fade.transparent

\* C3: at most one organelle is selected; when one is, it alone renders at
\* its base opacity and the other nine components are ghosted; when none
\* is, all ten render at their base opacity.
C3_SingleSelection ==
  /\ Cardinality(ComponentSet) = 10
  /\ Cardinality(SelectedComponents) <= 1
  /\ activeFeature # NULL =>
       /\ Cardinality(SelectedComponents) = 1
       /\ \A c \in ComponentSet : IF c \in SelectedComponents THEN AtBase(c) ELSE Ghosted(c)
  /\ activeFeature = NULL => \A c \in ComponentSet : AtBase(c)
\* The antibody stream is selected and the nine other components are ghosted.
C3_Witness ==
  /\ SelectedComponents = {"AntibodyStream"}
  /\ Cardinality({c \in ComponentSet : Ghosted(c)}) = 9

\* The events that write the selection, and the others.
SelectionWriters == {"click", "miss", "reset"}
SelectionReaders ==
  {"over", "out", "zoomIn", "zoomOut", "openInfo", "closeInfo", "dismissIntro", "frame"}

\* C10: the selection changes only in a step of an organelle click, a
\* pointer miss or the reset action; a step of any other event (hover
\* enter and leave, zoom, opening and closing the info panel, dismissing
\* the intro, a frame) leaves it as it was.
C10_SelectionFrame ==
  [][/\ activeFeature' # activeFeature => lastEvent'.kind \in SelectionWriters
     /\ lastEvent'.kind \in SelectionReaders => activeFeature' = activeFeature]_vars
\* A selection is in place and the camera has just been zoomed.
C10_Witness ==
  /\ activeFeature = "Nucleus"
  /\ lastEvent.kind \in {"zoomIn", "zoomOut"}

\* ------------------------------------------------------------ the animation
\* rawProgress >= 0.75 and rawProgress = 0.75, on the numerator raw.
AtOrPastTransition(raw) == 4 * raw >= 3 * cycleDuration
AtTransition(raw) == 4 * raw = 3 * cycleDuration

\* The instance matrices of the state: those of the vesicles, of their
\* cargo and of the antibodies.
Matrices == [ves |-> vesMatrix, cargo |-> cargoMatrix, ab |-> abMatrix]

\* What the frame one full cycle after the present one writes over m.
NextCycle(m) ==
  LET v == VesiclesUseFrame(clock + cycleDuration, vesParticles, SECRETION_PATHS, vesDummy,
                            m.ves, m.cargo)
      a == AntibodyUseFrame(clock + cycleDuration, abParticles, SECRETION_PATHS, abDummy, m.ab)
  IN [ves |-> v.mesh, cargo |-> v.cargo, ab |-> a.mesh]

\* The written position of antibody k without its lateral drift.
AntibodyUndrifted(matrix, k, t) ==
  LET raw == rawProgress(t, abParticles[k].offset)
  IN subVectors(matrix[k].position,
                AntibodyDrift(t, k - 1, AntibodyStageNum(raw), AntibodyStageDen))

\* C4 as stated: the position and the scale (hence the visibility) written
\* for every vesicle, cargo and antibody instance at time t and at time
\* t + 6.0 are identical.
C4_Periodicity ==
  painted =>
    LET m == Matrices
        n == NextCycle(m)
    IN /\ \A k \in 1..Len(m.ves) :
            /\ n.ves[k].position = m.ves[k].position
            /\ n.ves[k].scale = m.ves[k].scale
            /\ n.cargo[k].position = m.cargo[k].position
            /\ n.cargo[k].scale = m.cargo[k].scale
       /\ \A k \in 1..Len(m.ab) :
            /\ n.ab[k].position = m.ab[k].position
            /\ n.ab[k].scale = m.ab[k].scale

\* C4, amended: the scale (hence the visibility) of every vesicle, cargo and
\* antibody instance is the same at t and at t + 6.0; so is the position of
\* every visible vesicle and cargo instance; the position of a visible
\* antibody is the same once its lateral drift is taken off.
C4_PeriodicUpToDrift ==
  painted =>
    LET m == Matrices
        n == NextCycle(m)
    IN /\ \A k \in 1..Len(m.ves) :
            /\ n.ves[k].scale = m.ves[k].scale
            /\ n.cargo[k].scale = m.cargo[k].scale
            /\ m.ves[k].scale > 0 =>
                 /\ n.ves[k].position = m.ves[k].position
                 /\ n.cargo[k].position = m.cargo[k].position
       /\ \A k \in 1..Len(m.ab) :
            /\ n.ab[k].scale = m.ab[k].scale
            /\ m.ab[k].scale > 0 =>
                 AntibodyUndrifted(n.ab, k, clock + cycleDuration)
                   = AntibodyUndrifted(m.ab, k, clock)
\* More than a cycle has run, and a vesicle and an antibody are on show,
\* the antibody with a drift off its track.
C4_Witness ==
  /\ painted
  /\ clock > cycleDuration
  /\ LET m == Matrices
     IN /\ \E k \in 1..Len(m.ves) : m.ves[k].scale > 0
        /\ \E k \in 1..Len(m.ab) :
             /\ m.ab[k].scale > 0
             /\ AntibodyUndrifted(m.ab, k, clock) # m.ab[k].position

\* The offsets a particle can be given: Math.random() * 10, in ticks.
Offsets == 0..(10 * TicksPerUnit - 1)

\* C5: for every particle (pathIndex, offset) at the time of the state, the
\* vesicle and its cargo are written with scale 0 when rawProgress >= 0.75,
\* the antibody is written with scale 0 when rawProgress < 0.75, at
\* rawProgress = 0.75 both are at scale 0, and the two are never both at
\* the full scale 0.25; and so are the matrices of the two pools.
C5_Handoff ==
  /\ \A offset \in Offsets :
       LET p == [pathIndex |-> offset % NumPaths, offset |-> offset]
           path == SECRETION_PATHS[p.pathIndex + 1]
           raw == rawProgress(clock, offset)
           v == VesicleStep(p, clock, path, LocalUp(path), vesDummy)
           a == AntibodyStep(p, offset % AntibodyCount(SECRETION_PATHS), clock, path,
                             PathDirection(path), abDummy)
       IN /\ AtOrPastTransition(raw) => v.mesh.scale = 0 /\ v.cargo.scale = 0
          /\ ~AtOrPastTransition(raw) => a.mesh.scale = 0
          /\ AtTransition(raw) => v.mesh.scale = 0 /\ a.mesh.scale = 0
          /\ ~(v.mesh.scale = 250 /\ a.mesh.scale = 250)
  /\ painted =>
       LET m == Matrices
           vp == vesParticles
           ap == abParticles
       IN /\ \A k \in 1..Len(vp) :
               AtOrPastTransition(rawProgress(clock, vp[k].offset))
                 => m.ves[k].scale = 0 /\ m.cargo[k].scale = 0
          /\ \A k \in 1..Len(ap) :
               ~AtOrPastTransition(rawProgress(clock, ap[k].offset)) => m.ab[k].scale = 0
\* A frame has run in which one antibody stands exactly at the transition,
\* one vesicle is past it and hidden, and another vesicle is at full scale.
C5_Witness ==
  /\ painted
  /\ LET m == Matrices
         vp == vesParticles
         ap == abParticles
     IN /\ \E k \in 1..Len(ap) :
             AtTransition(rawProgress(clock, ap[k].offset)) /\ m.ab[k].scale = 0
        /\ \E k \in 1..Len(vp) :
             AtOrPastTransition(rawProgress(clock, vp[k].offset)) /\ m.ves[k].scale = 0
        /\ \E k \in 1..Len(vp) : m.ves[k].scale = 250

\* What the loop body writes for a vesicle p and for an antibody p of index
\* i at the time of the state when it starts from a newly made dummy.
VesicleFresh(p) ==
  LET path == SECRETION_PATHS[p.pathIndex + 1]
  IN VesicleStep(p, clock, path, LocalUp(path), Object3D)
AntibodyFresh(p, i) ==
  LET path == SECRETION_PATHS[p.pathIndex + 1]
  IN AntibodyStep(p, i, clock, path, PathDirection(path), Object3D)

\* C9 as stated: the transform written for every particle is the one its own
\* (t, pathIndex, offset, index) give on a fresh start, whatever the other
\* particles of the frame and the earlier frames were.
C9_PureUpdate ==
  painted =>
    LET m == Matrices
        vp == vesParticles
        ap == abParticles
    IN /\ \A k \in 1..Len(vp) :
            m.ves[k] = VesicleFresh(vp[k]).mesh /\ m.cargo[k] = VesicleFresh(vp[k]).cargo
       /\ \A k \in 1..Len(ap) : m.ab[k] = AntibodyFresh(ap[k], k - 1).mesh

\* C9, amended: the transform written for a particle in its active phase is
\* the one its own (t, pathIndex, offset, index) give on a fresh start; a
\* particle outside its phase is written with scale 0 at the position the
\* shared dummy was left at by the particle before it (by the frame before,
\* for the first particle).
C9_ActivePure ==
  painted =>
    LET m == Matrices
        vp == vesParticles
        ap == abParticles
    IN /\ \A k \in 1..Len(vp) :
            IF ~AtOrPastTransition(rawProgress(clock, vp[k].offset))
            THEN /\ m.ves[k] = VesicleFresh(vp[k]).mesh
                 /\ m.cargo[k] = VesicleFresh(vp[k]).cargo
            ELSE /\ m.ves[k].scale = 0
                 /\ m.cargo[k].scale = 0
                 /\ m.ves[k].position =
                      IF k = 1 THEN vesDummy0.position ELSE m.ves[k - 1].position
                 /\ m.cargo[k].position = m.ves[k].position
       /\ \A k \in 1..Len(ap) :
            IF AtOrPastTransition(rawProgress(clock, ap[k].offset))
            THEN m.ab[k] = AntibodyFresh(ap[k], k - 1).mesh
            ELSE /\ m.ab[k].scale = 0
                 /\ m.ab[k].position =
                      IF k = 1 THEN abDummy0.position ELSE m.ab[k - 1].position
\* A second frame has run, in which the first antibody is hidden and is
\* written where the frame before left the dummy, away from the origin.
C9_Witness ==
  /\ painted
  /\ clock > cycleDuration
  /\ LET m == Matrices
     IN /\ ~AtOrPastTransition(rawProgress(clock, abParticles[1].offset))
        /\ m.ab[1].position = abDummy0.position
        /\ abDummy0.position # Object3D.position
        /\ \E k \in 1..Len(m.ab) : m.ab[k].scale > 0

\* ----------------------------------------------------------- the generators
\* C6: the antibody pool holds 8 entries per secretion path and the vesicle
\* pool 2 per path, and so do the instance matrices; within a session the
\* pools stay the ones that were created at mount: no step of a session
\* moves the random stream they were drawn from.
C6_PoolSizes ==
  /\ [](/\ Len(abParticles) = 8 * Len(SECRETION_PATHS)
        /\ Len(vesParticles) = 2 * Len(SECRETION_PATHS)
        /\ Len(abMatrix) = Len(abParticles)
        /\ Len(vesMatrix) = Len(vesParticles)
        /\ Len(cargoMatrix) = Len(vesParticles))
  /\ [][loads' = loads => randomSeed' = randomSeed]_vars
\* A later session has run a frame over its 16 vesicles and 64 antibodies.
C6_Witness ==
  /\ loads > 1
  /\ painted
  /\ Len(vesMatrix) = 16
  /\ Len(abMatrix) = 64

\* C7: SECRETION_PATHS has 8 entries, each starting at (1.8, 0, 0) and
\* ending at an x in [-8.5, -7.5); it stays the same throughout a session
\* (no step of a session moves the random stream it was drawn from);
\* the particles of both pools and the microtubule tracks refer to its
\* entries.
C7_SecretionPaths ==
  /\ [](LET paths == SECRETION_PATHS
            vp == vesParticles
            ap == abParticles
            tracks == MicrotubuleTracks(paths)
        IN /\ Len(paths) = 8
           /\ \A k \in 1..Len(paths) :
                /\ paths[k].start = <<1800, 0, 0>>
                /\ paths[k].start = GOLGI_POS
                /\ paths[k].end[1] >= -8500
                /\ paths[k].end[1] < -7500
           /\ \A k \in 1..Len(vp) : vp[k].pathIndex + 1 \in 1..Len(paths)
           /\ \A k \in 1..Len(ap) : ap[k].pathIndex + 1 \in 1..Len(paths)
           /\ Len(tracks) = Len(paths)
           /\ \A k \in 1..Len(paths) :
                tracks[k].midPoint[1] * 2 \in {paths[k].end[1] + 1800 + d : d \in -1..1})
  /\ [][loads' = loads => randomSeed' = randomSeed]_vars
\* A later session, after a frame, whose paths end near both edges of the
\* range of x.
C7_Witness ==
  /\ loads > 1
  /\ painted
  /\ LET paths == SECRETION_PATHS
     IN /\ \E k \in 1..Len(paths) : paths[k].end[1] < -8400
        /\ \E k \in 1..Len(paths) : paths[k].end[1] >= -7600

\* NUCLEUS_RADIUS + 0.5, and a placement strictly outside that sphere.
ExclusionRadius == NUCLEUS_RADIUS + 500
OutsideNucleus(m) == DistToNucSq(m.position) > ExclusionRadius * ExclusionRadius

\* C8: every mitochondrion that either generator in the source accepts lies
\* strictly outside the sphere of radius NUCLEUS_RADIUS + 0.5 around
\* NUCLEUS_OFFSET.
C8_NucleusExclusion ==
  /\ \A k \in 1..Len(mitoDetailed) : OutsideNucleus(mitoDetailed[k])
  /\ \A k \in 1..Len(mitoSimple) : OutsideNucleus(mitoSimple[k])

\* -------------------------------------------------------- click dispatch
\* The rays the dispatch is tried on: through no, one or two organelles.
HitLists == {<<>>} \cup {<<c>> : c \in ComponentSet} \cup RayPairs

\* C11: a click whose ray meets organelle meshes runs the handler of the
\* nearest one only: the select callback gets that organelle's name, no
\* handler of an organelle behind it runs and the pointer-miss reset does
\* not run, so after a click the selection is the clicked organelle's name
\* and not none.
C11_ClickStopsPropagation ==
  /\ \A hits \in HitLists :
       LET d == ClickDispatch(hits, activeFeature)
       IN /\ Len(hits) > 0 =>
               /\ d.selection = InteractionName(hits[1])
               /\ d.handled = <<hits[1]>>
               /\ ~d.missed
               /\ d.selection # NULL
          /\ Len(hits) = 0 => d.missed /\ d.handled = <<>> /\ d.selection = NULL
  /\ lastEvent.kind = "click" => activeFeature = lastEvent.target /\ activeFeature # NULL
\* The Golgi has been clicked while the nucleus was selected, and a ray
\* through the Golgi and then the nucleus selects the Golgi alone.
C11_Witness ==
  /\ lastEvent = Event("click", "Golgi")
  /\ activeFeature = "Golgi"
  /\ ClickDispatch(<<"Golgi", "Nucleus">>, "Nucleus").handled = <<"Golgi">>

\* ---------------------------------------------------------------- hover
\* The hover flag never enters the opacity or the transparency: for every
\* component and the selection of the state, both are the same with the
\* flag up and down; and the flag changes a colour only while nothing is
\* selected.
HoverKeepsFade ==
  \A c \in ComponentSet :
    LET up == OrganelleMaterial(c, activeFeature, TRUE)
        down == OrganelleMaterial(c, activeFeature, FALSE)
    IN /\ up.opacity = down.opacity
       /\ up.transparent = down.transparent
       /\ up.opacity = OrganelleRender(c).fade.opacity
       /\ up.transparent = OrganelleRender(c).fade.transparent
       /\ activeFeature # NULL => up = down
\* The flag is local: pointer-enter raises the flag of one component,
\* pointer-leave lowers the flag of one component, no other event touches a
\* flag, and neither changes what any component's fade is.
HoverStep ==
  /\ lastEvent'.kind = "over" =>
       \E c \in ComponentSet : ~hovered[c] /\ hovered' = [hovered EXCEPT ![c] = TRUE]
  /\ lastEvent'.kind = "out" =>
       \E c \in ComponentSet : hovered[c] /\ hovered' = [hovered EXCEPT ![c] = FALSE]
  /\ hovered' # hovered => lastEvent'.kind \in {"over", "out"}
  /\ lastEvent'.kind \in {"over", "out"} =>
       \A c \in ComponentSet : OrganelleRender(c).fade' = OrganelleRender(c).fade

\* C12 as stated: the flag is local, set on pointer-enter and cleared on
\* pointer-leave, never changes opacity or transparency, and changes the
\* emissive colour only (no other material prop), and only while no
\* selection is active.
C12_HoverEmissiveOnly ==
  /\ [](/\ HoverKeepsFade
        /\ \A c \in ComponentSet :
             OrganelleMaterial(c, activeFeature, TRUE).color
               = OrganelleMaterial(c, activeFeature, FALSE).color)
  /\ [][HoverStep]_vars

\* C12, amended: as above, but what the flag changes is a colour of the
\* material: the emissive colour, or, for the nucleus and the free
\* ribosomes, the base colour.
C12_HoverColourOnly ==
  /\ [](/\ HoverKeepsFade
        /\ \A c \in ComponentSet :
             OrganelleMaterial(c, activeFeature, TRUE).color
               # OrganelleMaterial(c, activeFeature, FALSE).color
             => c \in {"Nucleus", "FreeRibosomes"} /\ activeFeature = NULL)
  /\ [][HoverStep]_vars
\* The pointer is over the nucleus with nothing selected: its base colour is
\* the highlight colour, its opacity the one of the fade rule.
C12_Witness ==
  /\ hovered["Nucleus"]
  /\ activeFeature = NULL
  /\ OrganelleMaterial("Nucleus", activeFeature, hovered["Nucleus"]).color = "#3d255e"
  /\ OrganelleMaterial("Nucleus", activeFeature, hovered["Nucleus"]).opacity = 1000

\* --------------------------------------------------------------- labels
\* The components that render their label in the state.
LabelsShown == {c \in ComponentSet : RenderedLabel(c, activeFeature) # NULL}

\* C13: a component renders its label if and only if its name is the
\* selection; so at most one label is shown, none when nothing is selected,
\* and the one shown is the selected component's own text.
C13_LabelIffSelected ==
  /\ \A c \in ComponentSet : c \in LabelsShown <=> InteractionName(c) = activeFeature
  /\ Cardinality(LabelsShown) <= 1
  /\ activeFeature = NULL => LabelsShown = {}
  /\ \A c \in LabelsShown : RenderedLabel(c, activeFeature) = LabelText(c)
\* The antibodies have been clicked: the stream shows its label and no
\* other component does.
C13_Witness ==
  /\ lastEvent = Event("click", "Antibodies")
  /\ LabelsShown = {"AntibodyStream"}
  /\ RenderedLabel("AntibodyStream", activeFeature) = "Antibody Swarm"

\* ----------------------------------------------------------- the splash
\* C14: the splash is shown initially; while it is shown the scene is not
\* interactive: no organelle click, background click, reset, zoom, hover or
\* info action has taken effect (the selection is none, the camera stands
\* where it was created, the info panel is closed, and only frames have
\* run since the load); once dismissed, the splash is never shown again in
\* the session.
C14_SplashGate ==
  /\ [](lastEvent.kind = "load" => showIntro)
  /\ [](showIntro =>
         /\ activeFeature = NULL
         /\ ~showInfo
         /\ cameraDistance = InitialCameraDistance
         /\ \A c \in ComponentSet : ~hovered[c]
         /\ lastEvent.kind \in {"load", "frame"})
  /\ [][/\ showIntro' => showIntro
        /\ showIntro /\ ~showIntro' => lastEvent'.kind = "dismissIntro"
        /\ showIntro /\ showIntro' => lastEvent'.kind = "frame"]_vars
\* The splash has just been dismissed, after the render loop ran behind it,
\* with the scene as it was created.
C14_Witness ==
  /\ lastEvent.kind = "dismissIntro"
  /\ ~showIntro
  /\ painted
  /\ activeFeature = NULL
  /\ cameraDistance = InitialCameraDistance

\* ------------------------------------------------------------- the zoom
\* C15: the camera distance stays within [minDistance, maxDistance] = [12,
\* 50] whatever zoom actions are taken; a zoom step multiplies the distance
\* by 0.8 (in) or 1.25 (out), puts it on the bound when the product leaves
\* the range, and leaves the selection alone; no other step moves the
\* camera distance.
C15_ZoomClamped ==
  /\ [](/\ minDistance = 12000
        /\ maxDistance = 50000
        /\ minDistance <= cameraDistance
        /\ cameraDistance <= maxDistance)
  /\ [][/\ lastEvent'.kind \in {"zoomIn", "zoomOut"} =>
             LET product == cameraDistance * (IF lastEvent'.kind = "zoomIn" THEN 800 ELSE 1250)
             IN /\ activeFeature' = activeFeature
                /\ product < minDistance * 1000 => cameraDistance' = minDistance
                /\ product > maxDistance * 1000 => cameraDistance' = maxDistance
                /\ product >= minDistance * 1000 /\ product <= maxDistance * 1000 =>
                     /\ cameraDistance' * 1000 - product <= 500
                     /\ product - cameraDistance' * 1000 <= 500
        /\ cameraDistance' # cameraDistance => lastEvent'.kind \in {"zoomIn", "zoomOut"}]_vars
\* With the Golgi selected, a zoom out has been stopped at the far bound.
C15_Witness ==
  /\ lastEvent.kind = "zoomOut"
  /\ cameraDistance = maxDistance
  /\ activeFeature = "Golgi"

\* ----------------------------------------------------- the vesicle stage
\* The length of the vesicle phase in ticks (0.75 of the cycle), and the
\* scale the ramp-hold-ramp profile gives at raw ticks into the cycle: 2.5
\* x stageProgress below 0.1, 2.5 x (1 - stageProgress) above 0.9, 0.25
\* between, with stageProgress = raw / VesiclePhaseTicks.
VesiclePhaseTicks == (transitionPoint * cycleDuration) \div 1000
RampHoldRamp(raw) ==
  IF 10 * raw < VesiclePhaseTicks THEN Div(2500 * raw, VesiclePhaseTicks)
  ELSE IF 10 * raw > 9 * VesiclePhaseTicks
       THEN Div(2500 * (VesiclePhaseTicks - raw), VesiclePhaseTicks)
       ELSE 250
dot(a, b) == a[1] * b[1] + a[2] * b[2] + a[3] * b[3]

\* What C16 says of the vesicle and cargo matrices (mesh, cargo) written for
\* a particle on path at raw ticks into its cycle, before the transition:
\* the scale is the ramp-hold-ramp profile; the position is the point of
\* the segment start-end at stageProgress, moved by s + 0.03 (to within the
\* rounding of a thousandth in each coordinate) at a right angle to the
\* segment; the cargo has the same position and half the scale.
VesicleStageAsClaimed(path, raw, mesh, cargo) ==
  LET s == RampHoldRamp(raw)
      along == subVectors(path.end, path.start)
      onTrack == <<path.start[1] + Div(along[1] * raw, VesiclePhaseTicks),
                   path.start[2] + Div(along[2] * raw, VesiclePhaseTicks),
                   path.start[3] + Div(along[3] * raw, VesiclePhaseTicks)>>
      lift == subVectors(mesh.position, onTrack)
  IN /\ mesh.scale = s
     /\ s >= 0 /\ s <= 250
     /\ lengthSq(lift) >= (s + 30 - 3) * (s + 30 - 3)
     /\ lengthSq(lift) <= (s + 30 + 3) * (s + 30 + 3)
     /\ dot(lift, along) * dot(lift, along) <= 16 * lengthSq(along)
     /\ cargo.position = mesh.position
     /\ 2 * cargo.scale <= s /\ 2 * cargo.scale >= s - 1

\* C16: in the vesicle phase the scale, the position and the cargo are as
\* above, for a particle of every offset at the time of the state and for
\* the vesicle and cargo matrices the last frame wrote.
C16_VesicleStage ==
  /\ \A offset \in Offsets :
       LET p == [pathIndex |-> offset % NumPaths, offset |-> offset]
           path == SECRETION_PATHS[p.pathIndex + 1]
           raw == rawProgress(clock, offset)
           v == VesicleStep(p, clock, path, LocalUp(path), vesDummy)
       IN ~AtOrPastTransition(raw) => VesicleStageAsClaimed(path, raw, v.mesh, v.cargo)
  /\ painted =>
       LET m == Matrices
           vp == vesParticles
           paths == SECRETION_PATHS
       IN \A k \in 1..Len(vp) :
            LET raw == rawProgress(clock, vp[k].offset)
            IN ~AtOrPastTransition(raw) =>
                 VesicleStageAsClaimed(paths[vp[k].pathIndex + 1], raw, m.ves[k], m.cargo[k])
\* A frame has written a vesicle growing on its first tenth, one held at
\* 0.25 and one shrinking on its last tenth.
C16_Witness ==
  /\ painted
  /\ LET m == Matrices
         vp == vesParticles
     IN /\ \E k \in 1..Len(vp) :
             LET raw == rawProgress(clock, vp[k].offset)
             IN 10 * raw < VesiclePhaseTicks /\ m.ves[k].scale > 0 /\ m.ves[k].scale < 250
        /\ \E k \in 1..Len(vp) :
             LET raw == rawProgress(clock, vp[k].offset)
             IN raw < VesiclePhaseTicks /\ 10 * raw > 9 * VesiclePhaseTicks
                  /\ m.ves[k].scale > 0 /\ m.ves[k].scale < 250
        /\ \E k \in 1..Len(vp) : m.ves[k].scale = 250 /\ m.cargo[k].scale = 125

\* ---------------------------------------------------- the antibody stage
\* The length of the antibody phase in ticks (the last quarter of the
\* cycle), and the scale the pop-in / fade-out profile gives at u ticks into
\* the phase: 2.5 x stageProgress below 0.1, 1.25 x (1 - stageProgress)
\* above 0.8, 0.25 between, with stageProgress = u / AntibodyPhaseTicks.
AntibodyPhaseTicks == cycleDuration - VesiclePhaseTicks
PopInFadeOut(u) ==
  IF 10 * u < AntibodyPhaseTicks THEN Div(2500 * u, AntibodyPhaseTicks)
  ELSE IF 10 * u > 8 * AntibodyPhaseTicks
       THEN Div(1250 * (AntibodyPhaseTicks - u), AntibodyPhaseTicks)
       ELSE 250

\* The scale C17 gives an antibody at raw ticks into its cycle: the profile
\* within the antibody phase, zero outside it.
AntibodyScaleAsClaimed(raw) ==
  IF AtOrPastTransition(raw) THEN PopInFadeOut(raw - VesiclePhaseTicks) ELSE 0

\* C17: the scale written for an antibody is 0 -> 0.25 over the first tenth
\* of its phase, 0.25 -> 0 over the last fifth (continuous at 0.8, never
\* above 0.25), and 0 outside the phase; for a particle of every offset at
\* the time of the state and for the antibody matrices the last frame wrote.
C17_AntibodyScale ==
  /\ PopInFadeOut(0) = 0
  /\ \A u \in 0..(AntibodyPhaseTicks - 1) :
       /\ PopInFadeOut(u) >= 0 /\ PopInFadeOut(u) <= 250
       /\ 10 * u = 8 * AntibodyPhaseTicks => PopInFadeOut(u) = 250
  /\ \A offset \in Offsets :
       LET p == [pathIndex |-> offset % NumPaths, offset |-> offset]
           path == SECRETION_PATHS[p.pathIndex + 1]
           raw == rawProgress(clock, offset)
           a == AntibodyStep(p, offset % AntibodyCount(SECRETION_PATHS), clock, path,
                             PathDirection(path), abDummy)
       IN a.mesh.scale = AntibodyScaleAsClaimed(raw)
  /\ painted =>
       LET m == Matrices
           ap == abParticles
       IN \A k \in 1..Len(ap) :
            m.ab[k].scale = AntibodyScaleAsClaimed(rawProgress(clock, ap[k].offset))
\* A frame has written an antibody popping in, one at 0.25, one fading out
\* and one hidden.
C17_Witness ==
  /\ painted
  /\ LET m == Matrices
         ap == abParticles
     IN /\ \E k \in 1..Len(ap) :
             LET u == rawProgress(clock, ap[k].offset) - VesiclePhaseTicks
             IN u > 0 /\ 10 * u < AntibodyPhaseTicks /\ m.ab[k].scale > 0 /\ m.ab[k].scale < 250
        /\ \E k \in 1..Len(ap) :
             LET u == rawProgress(clock, ap[k].offset) - VesiclePhaseTicks
             IN 10 * u > 8 * AntibodyPhaseTicks /\ m.ab[k].scale > 0 /\ m.ab[k].scale < 250
        /\ \E k \in 1..Len(ap) : m.ab[k].scale = 250
        /\ \E k \in 1..Len(ap) :
             ~AtOrPastTransition(rawProgress(clock, ap[k].offset)) /\ m.ab[k].scale = 0

\* The fly-away distance at stageProgress 1, and whether two vectors agree
\* to within tol thousandths in every coordinate.
MaxTravel == 6000
Near(a, b, tol) ==
  \A j \in 1..3 : a[j] - b[j] <= tol /\ b[j] - a[j] <= tol

\* What C18 says of the matrix mesh written at time t for the antibody of
\* index i on path, raw ticks into its cycle and in its phase: with u the
\* ticks into the phase, the position is the path's end plus the unit
\* start-to-end vector times 6.0 x u / AntibodyPhaseTicks (less than 6.0),
\* plus a drift on y and z only, of at most 0.2, which is the drift of
\* index i; at u = 0 it is the path's end exactly.
AntibodyPositionAsClaimed(path, raw, i, t, mesh) ==
  LET u == raw - VesiclePhaseTicks
      along == subVectors(path.end, path.start)
      len == MathSqrt(lengthSq(along))
      travel == Div(MaxTravel * u, AntibodyPhaseTicks)
      onTrack == <<path.end[1] + Div(along[1] * travel, len),
                   path.end[2] + Div(along[2] * travel, len),
                   path.end[3] + Div(along[3] * travel, len)>>
      drift == subVectors(mesh.position, onTrack)
      ownDrift == AntibodyDrift(t, i, AntibodyStageNum(raw), AntibodyStageDen)
  IN /\ u = 0 => mesh.position = path.end
     /\ travel >= 0 /\ travel < MaxTravel
     /\ drift[1] <= 8 /\ drift[1] >= -8
     /\ drift[2] <= 208 /\ drift[2] >= -208
     /\ drift[3] <= 208 /\ drift[3] >= -208
     /\ ownDrift[1] = 0
     /\ Near(subVectors(mesh.position, ownDrift), onTrack, 8)

\* C18: in the antibody phase the position is as above, for a particle of
\* every offset at the time of the state and for the antibody matrices the
\* last frame wrote.
C18_AntibodyPosition ==
  /\ \A offset \in Offsets :
       LET p == [pathIndex |-> offset % NumPaths, offset |-> offset]
           path == SECRETION_PATHS[p.pathIndex + 1]
           raw == rawProgress(clock, offset)
           i == offset % AntibodyCount(SECRETION_PATHS)
           a == AntibodyStep(p, i, clock, path, PathDirection(path), abDummy)
       IN AtOrPastTransition(raw) => AntibodyPositionAsClaimed(path, raw, i, clock, a.mesh)
  /\ painted =>
       LET m == Matrices
           ap == abParticles
           paths == SECRETION_PATHS
       IN \A k \in 1..Len(ap) :
            LET raw == rawProgress(clock, ap[k].offset)
            IN AtOrPastTransition(raw) =>
                 AntibodyPositionAsClaimed(paths[ap[k].pathIndex + 1], raw, k - 1, clock, m.ab[k])
\* A frame has written one antibody exactly at the transition, at its
\* path's end, and another one far out, more than 4.0 from its path's end
\* and drifted off the track.
C18_Witness ==
  /\ painted
  /\ LET m == Matrices
         ap == abParticles
         paths == SECRETION_PATHS
     IN /\ \E k \in 1..Len(ap) :
             /\ AtTransition(rawProgress(clock, ap[k].offset))
             /\ m.ab[k].position = paths[ap[k].pathIndex + 1].end
        /\ \E k \in 1..Len(ap) :
             /\ m.ab[k].scale > 0
             /\ lengthSq(subVectors(m.ab[k].position, paths[ap[k].pathIndex + 1].end))
                  > 4000 * 4000
             /\ AntibodyUndrifted(m.ab, k, clock) # m.ab[k].position

\* ------------------------------------------------------------ the bursts
\* The shortest interval between two frames: a particle whose rawProgress is
\* less than this past the transition has crossed it since the frame before.
BurstWindow == CHOOSE d \in FrameDeltas : \A e \in FrameDeltas : d <= e
JustCrossed(raw) ==
  AtOrPastTransition(raw) /\ raw - VesiclePhaseTicks < BurstWindow

\* The vesicles that have fused since the frame before (across the
\* transition and hidden), and the antibodies of path index j that have
\* entered their phase since the frame before.
FusedVesicles(m, vp) ==
  {k \in 1..Len(vp) : JustCrossed(rawProgress(clock, vp[k].offset)) /\ m.ves[k].scale = 0}
BornAntibodies(ap, j) ==
  {k \in 1..Len(ap) : ap[k].pathIndex = j /\ JustCrossed(rawProgress(clock, ap[k].offset))}

\* C19: whenever a vesicle on path k has reached the end of its vesicle
\* phase (it crossed rawProgress 0.75 since the frame before and is
\* hidden), antibodies on the same path k enter their antibody phase at
\* that moment (they crossed 0.75 since the frame before as well).
C19_BurstAtFusion ==
  painted =>
    LET m == Matrices
        vp == vesParticles
        ap == abParticles
    IN \A k \in FusedVesicles(m, vp) : BornAntibodies(ap, vp[k].pathIndex) # {}

\* ------------------------------------------------------- the frame loop
\* A transform that no frame writes, standing for one left in an instance
\* by an earlier frame; and count instances holding it.
EarlierTransform == [position |-> <<1, 1, 1>>, rotation |-> <<1, 1, 1>>, scale |-> 1000]
EarlierMesh(count) == [k \in 1..count |-> EarlierTransform]

\* C20: a frame writes the transform of every index of the vesicle pool,
\* of the cargo pool and of the antibody pool: after a frame no instance
\* holds the identity transform it was created with, and the matrices the
\* frame leaves are the same whatever the instances held before it.
C20_EveryInstanceWritten ==
  painted =>
    LET m == Matrices
        vp == vesParticles
        ap == abParticles
        paths == SECRETION_PATHS
        v == VesiclesUseFrame(clock, vp, paths, vesDummy0,
                              EarlierMesh(Len(vp)), EarlierMesh(Len(vp)))
        a == AntibodyUseFrame(clock, ap, paths, abDummy0, EarlierMesh(Len(ap)))
    IN /\ Len(m.ves) = Len(vp) /\ Len(m.cargo) = Len(vp) /\ Len(m.ab) = Len(ap)
       /\ \A k \in 1..Len(vp) :
            /\ m.ves[k] # updateMatrix(Object3D)
            /\ m.cargo[k] # updateMatrix(Object3D)
            /\ v.mesh[k] # EarlierTransform
            /\ v.cargo[k] # EarlierTransform
       /\ \A k \in 1..Len(ap) :
            /\ m.ab[k] # updateMatrix(Object3D)
            /\ a.mesh[k] # EarlierTransform
       /\ v.mesh = m.ves
       /\ v.cargo = m.cargo
       /\ a.mesh = m.ab
\* A later frame has run, in which the last vesicle and the last antibody
\* of the pools are hidden and written with scale 0.
C20_Witness ==
  /\ painted
  /\ clock > cycleDuration
  /\ LET m == Matrices
     IN /\ m.ves[Len(m.ves)].scale = 0
        /\ m.cargo[Len(m.cargo)].scale = 0
        /\ m.ab[Len(m.ab)].scale = 0

\* ------------------------------------------ animation and the selection
\* The events of the pointer on the scene.
PointerEvents == {"click", "miss", "reset", "over", "out"}

MembraneRays == {<<Membrane>>} \cup {<<Membrane, c>> : c \in ComponentSet}

\* C22: the membrane's opacity is 0.15 exactly when nothing is selected and
\* 0.02 whenever an organelle is; the membrane is not a click target: a
\* click that meets the membrane alone is a background click (the miss
\* handler runs and the selection becomes none), and a click through the
\* membrane selects the organelle behind it.
C22_Membrane ==
  /\ membraneOpacity \in {20, 150}
  /\ membraneOpacity = 150 <=> activeFeature = NULL
  /\ membraneOpacity = 20 <=> activeFeature \in OrganelleNames
  /\ \A ray \in MembraneRays :
       LET d == ClickDispatch(intersect(ray), activeFeature)
       IN /\ \A k \in 1..Len(d.handled) : d.handled[k] # Membrane
          /\ Len(ray) = 1 => d.missed /\ d.selection = NULL
          /\ Len(ray) = 2 => ~d.missed /\ d.selection = InteractionName(ray[2])
\* The Golgi is selected and the membrane is at 0.02; a click on the
\* membrane alone would clear the selection.
C22_Witness ==
  /\ activeFeature = "Golgi"
  /\ membraneOpacity = 20
  /\ ClickDispatch(intersect(<<Membrane>>), activeFeature).selection = NULL

\* ------------------------------------------------------ the re-renders
\* The first render of the session.
Mounted ==
  RenderScene(NoHooks, VesicleRng(randomSeed), SECRETION_PATHS, NULL,
              [c \in ComponentSet |-> FALSE])

\* C23: the generated data is computed once, at mount, and a re-render with
\* the selection and the hover flags of the state changes none of it: the
\* re-render leaves every hook cell and the random stream as the mount left
\* them, the cells hold the particles and placements the animation and the
\* scene use, and what differs between the two renders is in the material
\* props (colour, emissive colour, opacity, transparency) only.
C23_GeneratedOnce ==
  LET mount == Mounted
      again == RenderScene(mount.hooks, mount.rng, SECRETION_PATHS, activeFeature, hovered)
  IN /\ again.hooks = mount.hooks
     /\ again.rng = mount.rng
     /\ mount.hooks.vesicles.value = vesParticles
     /\ mount.hooks.antibodies.value = abParticles
     /\ mount.hooks.mitochondria.value = mitoDetailed
     /\ Len(mount.hooks.cristae) = Len(mitoDetailed)
     /\ \A k \in 1..Len(mount.hooks.cristae) :
          mount.hooks.cristae[k].set /\ Len(mount.hooks.cristae[k].value) = 4
     /\ activeFeature = NULL /\ (\A c \in ComponentSet : ~hovered[c])
          => again.materials = mount.materials
\* The lysosomes are selected with the pointer on them: the re-render
\* differs from the mount in the opacity of the nucleus.
C23_Witness ==
  /\ activeFeature = "Lysosomes"
  /\ hovered["Lysosomes"]
  /\ OrganelleMaterial("Nucleus", activeFeature, hovered["Nucleus"]).opacity
       # OrganelleMaterial("Nucleus", NULL, FALSE).opacity
  /\ Len(vesParticles) > 0


\* ---------------------------------------------------------------------
\* C24: paths that run straight up or straight down.
\* ---------------------------------------------------------------------

\* Tracks whose end is straight above or straight below their start, so
\* that dir is (0, 1, 0) or (0, -1, 0) and dir x worldUp is the zero vector.
VerticalPaths ==
  { [start |-> Vector3(x, y, z), end |-> Vector3(x, y + h, z)] :
      x \in {-1800}, y \in {0, 500}, z \in {700},
      h \in {-4000, -1000, 1000, 4000} }

\* C24: on a path parallel to the world up axis the perpendicular of the
\* vesicle update has zero length and (1, 0, 0) takes its place: localUp is
\* then a unit vector at a right angle to the path, and the step of a
\* particle of every offset at the time of the state writes the transform
\* of C16 (scale on the ramp profile, position on the track lifted by
\* s + 0.03 at a right angle, cargo at the same place with half the scale)
\* before the transition and a scale of 0 after it.  The antibody update,
\* the other per-frame computation that uses the path direction, writes the
\* transform of C18 on the same paths.
C24_ParallelFallback ==
  \A path \in VerticalPaths :
    LET dir == PathDirection(path)
        up == LocalUp(path)
    IN /\ lengthSq(normalize(crossVectors(dir, Vector3(0, 1000, 0)))) = 0
       /\ lengthSq(up) = 1000 * 1000
       /\ dot(up, dir) = 0
       /\ \A offset \in Offsets :
            LET p == [pathIndex |-> offset % NumPaths, offset |-> offset]
                raw == rawProgress(clock, offset)
                i == offset % AntibodyCount(SECRETION_PATHS)
                v == VesicleStep(p, clock, path, up, vesDummy)
                a == AntibodyStep(p, i, clock, path, dir, abDummy)
            IN IF AtOrPastTransition(raw)
               THEN /\ v.mesh.scale = 0 /\ v.cargo.scale = 0
                    /\ AntibodyPositionAsClaimed(path, raw, i, clock, a.mesh)
               ELSE /\ VesicleStageAsClaimed(path, raw, v.mesh, v.cargo)
                    /\ a.mesh.scale = 0
\* Frames have run, and at the time of the state a vesicle held at 0.25 on
\* an upward path sits 0.28 off the track along (0, 0, 1), the local up the
\* fallback axis gives.
C24_Witness ==
  /\ painted
  /\ \E path \in VerticalPaths : \E offset \in Offsets :
       LET p == [pathIndex |-> offset % NumPaths, offset |-> offset]
           raw == rawProgress(clock, offset)
           v == VesicleStep(p, clock, path, LocalUp(path), vesDummy)
       IN /\ path.end[2] > path.start[2]
          /\ LocalUp(path) = Vector3(0, 0, 1000)
          /\ ~AtOrPastTransition(raw)
          /\ v.mesh.scale = 250
          /\ v.mesh.position[3] = path.start[3] + 280

\* ---------------------------------------------------------------------
\* C26: selection names and the reference-panel table.
\* ---------------------------------------------------------------------

\* A variant of the table keyed by the components' own names.
INFO_CONTENTByComponent ==
  [key \in {"Cell"} \cup ComponentSet |->
     CASE key = "Cell" -> "The Antibody Factory"
       [] OTHER -> key]
\* The reference-panel table: its keys, each with the title of its entry.
INFO_CONTENT ==
  [key \in {"Cell", "Antibodies", "Nucleus", "RER", "Golgi", "Mitochondria",
            "Vesicles", "Lysosomes", "Centrioles", "Ribosomes", "Microtubules"} |->
     CASE key = "Cell" -> "The Antibody Factory"
       [] key = "Antibodies" -> "The Product (Antibodies)"
       [] key = "Nucleus" -> "The CEO's Office (Nucleus)"
       [] key = "RER" -> "The Assembly Line (Rough ER)"
       [] key = "Golgi" -> "Shipping & Packaging (Golgi)"
       [] key = "Mitochondria" -> "Power Plants (Mitochondria)"
       [] key = "Vesicles" -> "Delivery Trucks (Vesicles)"
       [] key = "Lysosomes" -> "Janitors (Lysosomes)"
       [] key = "Centrioles" -> "Logistics Managers (Centrioles)"
       [] key = "Ribosomes" -> "The Workers (Free Ribosomes)"
       [] OTHER -> "The Roads (Microtubules)"]

\* The entries of the organelle grid of the modal: every key but "Cell".
OrganelleGrid == DOMAIN INFO_CONTENT \ {"Cell"}

\* C26: the ten components pass ten different names to useInteraction, the
\* ten names of the claim; every one of them is a key of INFO_CONTENT, and
\* so is the selection whenever there is one.
C26_NamesInTable ==
  /\ Len(Components) = 10
  /\ \A j, k \in 1..Len(Components) :
       j # k => InteractionName(Components[j]) # InteractionName(Components[k])
  /\ OrganelleNames = {"Nucleus", "RER", "Golgi", "Mitochondria", "Lysosomes",
                       "Centrioles", "Ribosomes", "Microtubules", "Vesicles",
                       "Antibodies"}
  /\ OrganelleNames \subseteq DOMAIN INFO_CONTENT
  /\ activeFeature # NULL =>
       /\ activeFeature \in OrganelleGrid
       /\ \E c \in ComponentSet : InteractionName(c) = activeFeature
\* A click on the free ribosomes has made "Ribosomes" the selection, a name
\* that differs from its component's and is a key of the table.
C26_Witness ==
  /\ lastEvent = Event("click", InteractionName("FreeRibosomes"))
  /\ activeFeature = "Ribosomes"
  /\ activeFeature \notin ComponentSet
  /\ INFO_CONTENT[activeFeature] = "The Workers (Free Ribosomes)"

\* ---------------------------------------------------------------------
\* C27: the particles of the two pools and their paths.
\* ---------------------------------------------------------------------

\* The particles of pool that travel on the path of index j.
OnPath(pool, j) == {k \in 1..Len(pool) : pool[k].pathIndex = j}

\* What C27 says of a pool with perPath particles for each path.
PoolAsClaimed(pool, paths, perPath) ==
  /\ \A k \in 1..Len(pool) :
       /\ pool[k].pathIndex = (k - 1) % 8
       /\ pool[k].pathIndex >= 0 /\ pool[k].pathIndex < Len(paths)
       /\ pool[k].offset >= 0 /\ pool[k].offset < 10 * TicksPerUnit
  /\ \A j \in 0..(Len(paths) - 1) : Cardinality(OnPath(pool, j)) = perPath

\* C27: particle i of either pool is on path i mod 8, an index of
\* SECRETION_PATHS, with an offset in [0, 10); every path carries 2 vesicle
\* particles and 8 antibody particles.
C27_ParticlesOnPaths ==
  LET paths == SECRETION_PATHS
      vp == vesParticles
      ap == abParticles
  IN /\ Len(paths) = 8
     /\ PoolAsClaimed(vp, paths, 2)
     /\ PoolAsClaimed(ap, paths, 8)
\* A later session has painted a frame with two vesicles of different
\* offsets on the last path and antibodies of the last path more than 5.0
\* apart in offset.
C27_Witness ==
  LET vp == vesParticles
      ap == abParticles
  IN /\ loads > 1
     /\ painted
     /\ \E j, k \in OnPath(vp, 7) : vp[j].offset # vp[k].offset
     /\ \E j, k \in OnPath(ap, 7) : ap[j].offset > ap[k].offset + 5 * TicksPerUnit

\* ---------------------------------------------------------------------
\* C28: the cycle over unbounded time.
\* ---------------------------------------------------------------------

\* The render loop over unbounded elapsed time.  The elapsed time is kept
\* modulo one cycle: the phase test and the two scales depend on it only
\* through (t + offset) % cycleDuration.  The cargo's rotation and the
\* antibodies' drift, which read the elapsed time itself, are those of the
\* time within the cycle here, and no formula checked under SpecCycle reads
\* them.
CycleFrame(dt) ==
  LET t == (clock + dt) % cycleDuration
  IN /\ clock' = t
     /\ painted' = TRUE
     /\ vesDummy0' = vesDummy
     /\ vesDummy' = VesiclesUseFrame(t, vesParticles, SECRETION_PATHS, vesDummy,
                                     InstancedMesh(VesicleCount(SECRETION_PATHS)),
                                     InstancedMesh(VesicleCount(SECRETION_PATHS))).dummy
     /\ abDummy0' = abDummy
     /\ abDummy' = AntibodyUseFrame(t, abParticles, SECRETION_PATHS, abDummy,
                                    InstancedMesh(AntibodyCount(SECRETION_PATHS))).dummy
     /\ cellRotation' = PlasmaCellUseFrame(t)
     /\ lastEvent' = Event("frame", NULL)
     /\ UNCHANGED <<uiVars, genVars>>

NextForever == \E dt \in FrameDeltas : CycleFrame(dt)
\* The steps of NextForever that are frames at the refresh interval: the
\* ones that advance the elapsed time by RefreshDelta.
RefreshStep == clock' = (clock + RefreshDelta) % cycleDuration
\* The loop runs a callback on every display refresh for as long as the
\* page lives, so frames at the refresh interval keep coming, whatever
\* longer gaps lie between them.
SpecCycle == Init /\ [][NextForever]_vars /\ WF_clock(RefreshStep)

\* The two windows of a cycle, for a particle raw ticks into its cycle.
VesicleWindow(raw) == raw >= 0 /\ raw < VesiclePhaseTicks
AntibodyWindow(raw) == raw >= VesiclePhaseTicks /\ raw < cycleDuration

\* The offsets of the two pools of the session of every seed.
PoolOffsets ==
  [s \in 1..MaxSeed |->
     LET paths == GenSecretionPaths(s)
         vp == GenParticles(VesicleCount(paths), Len(paths), VesicleRng(s))
         ap == GenParticles(AntibodyCount(paths), Len(paths), AntibodyRng(s))
     IN [ves |-> [k \in 1..Len(vp) |-> vp[k].offset],
         ab |-> [k \in 1..Len(ap) |-> ap[k].offset]]]

\* Vesicle particle k (antibody particle k) is strictly inside its window,
\* or outside it, at the time of the last frame.
VesicleShown(k) ==
  painted /\ LET raw == rawProgress(clock, PoolOffsets[randomSeed].ves[k])
             IN raw > 0 /\ VesicleWindow(raw)
VesicleHidden(k) ==
  painted /\ ~VesicleWindow(rawProgress(clock, PoolOffsets[randomSeed].ves[k]))
AntibodyShown(k) ==
  painted /\ LET raw == rawProgress(clock, PoolOffsets[randomSeed].ab[k])
             IN raw > VesiclePhaseTicks /\ AntibodyWindow(raw)
AntibodyHidden(k) ==
  painted /\ ~AntibodyWindow(rawProgress(clock, PoolOffsets[randomSeed].ab[k]))

\* The matrices of the last frame show a particle (scale > 0) exactly when
\* it is strictly inside the window of its pool, the phase test of the
\* vesicle update is the vesicle window, and the offsets of the pools are
\* those of the session's seed.
ShownInWindow ==
  painted =>
    LET m == Matrices
        vp == vesParticles
        ap == abParticles
    IN /\ PoolOffsets[randomSeed].ves = [k \in 1..Len(vp) |-> vp[k].offset]
       /\ PoolOffsets[randomSeed].ab = [k \in 1..Len(ap) |-> ap[k].offset]
       /\ \A k \in 1..Len(vp) :
            LET raw == rawProgress(clock, vp[k].offset)
            IN /\ (m.ves[k].scale > 0) = (raw > 0 /\ VesicleWindow(raw))
               /\ BeforeTransition(raw) = VesicleWindow(raw)
       /\ \A k \in 1..Len(ap) :
            LET raw == rawProgress(clock, ap[k].offset)
            IN /\ (m.ab[k].scale > 0) = (raw > VesiclePhaseTicks /\ AntibodyWindow(raw))
               /\ BeforeTransition(raw) = ~AntibodyWindow(raw)

\* A cycle is 6.0 time units: a vesicle window of 4.5, then an antibody
\* window of 1.5, and every instant of the cycle is in exactly one of them.
WindowsOfCycle ==
  /\ cycleDuration = 6 * TicksPerUnit
  /\ 2 * Cardinality({raw \in 0..(cycleDuration - 1) : VesicleWindow(raw)}) = 9 * TicksPerUnit
  /\ 2 * Cardinality({raw \in 0..(cycleDuration - 1) : AntibodyWindow(raw)}) = 3 * TicksPerUnit
  /\ \A raw \in 0..(cycleDuration - 1) :
       /\ VesicleWindow(raw) # AntibodyWindow(raw)
       /\ VesicleWindow(raw) /\ raw > 0 => VesicleWindow(raw - 1)
       /\ AntibodyWindow(raw) /\ raw + 1 < cycleDuration => AntibodyWindow(raw + 1)
  /\ \A offset \in Offsets :
       LET raw == rawProgress(clock, offset)
       IN /\ raw \in 0..(cycleDuration - 1)
          /\ BeforeTransition(raw) = VesicleWindow(raw)
          /\ BeforeTransition(raw) # AntibodyWindow(raw)

\* C28: as the elapsed time grows without bound every one of the 16 vesicle
\* particles is shown (scale > 0) again and again and hidden again and
\* again, and so is every one of the 64 antibody particles; a cycle is a
\* vesicle window of 4.5 followed by an antibody window of 1.5, exactly one
\* of the two at every instant.
C28_CyclesForever ==
  /\ [](ShownInWindow /\ WindowsOfCycle)
  /\ \A k \in 1..(2 * NumPaths) : []<>VesicleShown(k) /\ []<>VesicleHidden(k)
  /\ \A k \in 1..(8 * NumPaths) : []<>AntibodyShown(k) /\ []<>AntibodyHidden(k)
\* The elapsed time has passed the end of a cycle, and the frame painted
\* then shows some vesicles and antibodies and hides others.
C28_Witness ==
  /\ painted
  /\ clock > 0 /\ clock < RefreshDelta
  /\ LET m == Matrices
     IN /\ \E k \in 1..Len(m.ves) : m.ves[k].scale > 0
        /\ \E k \in 1..Len(m.ves) : m.ves[k].scale = 0
        /\ \E k \in 1..Len(m.ab) : m.ab[k].scale > 0
        /\ \E k \in 1..Len(m.ab) : m.ab[k].scale = 0

\* ---------------------------------------------------------------------
\* C29: clicks while an organelle is selected.
\* ---------------------------------------------------------------------

\* C29: while an organelle is selected every component, ghosted or not,
\* takes clicks: its handler is enabled and a ray that meets it first runs
\* its handler alone, with no onPointerMissed.  A click step taken from a
\* state with a selection leaves the clicked organelle selected in the very
\* next state: the selection goes from A to B in one step, never to none,
\* and stays A when A is clicked.
C29_DirectSwitch ==
  /\ [](activeFeature # NULL =>
          \A c \in ComponentSet :
            /\ ENABLED onClick(c)
            /\ c \notin SelectedComponents => Ghosted(c)
            /\ \A hits \in {<<c>>} \cup {h \in RayPairs : h[1] = c} :
                 LET d == ClickDispatch(hits, activeFeature)
                 IN /\ d.selection = InteractionName(c)
                    /\ d.handled = <<c>>
                    /\ ~d.missed
                    /\ InteractionName(c) = activeFeature => d.selection = activeFeature)
  /\ [][activeFeature # NULL /\ lastEvent'.kind = "click" =>
          /\ activeFeature' = lastEvent'.target
          /\ activeFeature' # NULL
          /\ lastEvent'.target = activeFeature => activeFeature' = activeFeature]_vars
\* The Golgi is selected after a click on it, the nucleus is ghosted, and
\* clicks on the ghosted nucleus and on the Golgi itself are enabled.
C29_Witness ==
  /\ lastEvent = Event("click", "Golgi")
  /\ activeFeature = "Golgi"
  /\ Ghosted("Nucleus")
  /\ ENABLED onClick("Nucleus")
  /\ ENABLED onClick("Golgi")
  /\ ClickDispatch(<<"Nucleus", "Golgi">>, activeFeature).selection = "Nucleus"

\* ---------------------------------------------------------------------
\* C30: the generated paths and the fallback of the vesicle update.
\* ---------------------------------------------------------------------

\* perp of the vesicle update before the fallback: normalize(dir x worldUp).
PerpOf(path) == normalize(crossVectors(PathDirection(path), Vector3(0, 1000, 0)))

\* Whatever Math.random() returns for the x of a path's end, the end lies
\* at a smaller x than the start.
EveryDrawLeftward ==
  \A s \in 0..(LcgModulus - 1) : -8500 + RandomTimes(s, 1000) - 1800 < 0

\* C30: every path of the session runs towards negative x (end - start has
\* x < 0, for the x of the end that every draw gives), so its direction is
\* not parallel to the world up axis: the perpendicular of the vesicle
\* update has a length, and the local up is the one computed from it, not
\* from the fallback axis.
C30_FallbackNotTaken ==
  /\ EveryDrawLeftward
  /\ LET paths == SECRETION_PATHS
     IN \A k \in 1..Len(paths) :
          LET along == subVectors(paths[k].end, paths[k].start)
              dir == PathDirection(paths[k])
              perp == PerpOf(paths[k])
          IN /\ along[1] < 0
             /\ dir[1] < 0
             /\ dir # Vector3(0, 1000, 0) /\ dir # Vector3(0, -1000, 0)
             /\ lengthSq(perp) # 0
             /\ LocalUp(paths[k]) = normalize(crossVectors(perp, dir))
\* A later session has run a frame over paths of which one climbs more
\* than 3.0 and one descends more than 3.0 on their way to the tail.
C30_Witness ==
  /\ loads > 1
  /\ painted
  /\ LET paths == SECRETION_PATHS
     IN /\ \E k \in 1..Len(paths) : paths[k].end[2] > 3000 /\ lengthSq(PerpOf(paths[k])) > 0
        /\ \E k \in 1..Len(paths) : paths[k].end[2] < -3000 /\ lengthSq(PerpOf(paths[k])) > 0
====
